---- MODULE Spec2Model ----
(***************************************************************************)
(* Room matcher (src/room_manager.py) and connection registry              *)
(* (src/web_socket.py) of the translation backend.                         *)
(*                                                                         *)
(* RoomManager keeps four tables (users, rooms, user_to_room,              *)
(* waiting_queue) and a room counter.  add_user and remove_user are        *)
(* coroutines whose bodies contain no await, so on the asyncio event loop  *)
(* each call runs from its first line to its return without another        *)
(* handler running in between: each is one atomic action here.            *)
(*                                                                         *)
(* WebSocketManager keeps one dict, active_connections.  connect stores    *)
(* after its await; disconnect is a plain function; the send and broadcast *)
(* coroutines await the channel's send, where the event loop may run any   *)
(* other task: each of them is a start action up to the first await and a  *)
(* resume action from the await's outcome to the next await or the return. *)
(***************************************************************************)
EXTENDS Integers, Sequences, FiniteSets, TLC

\* ---------------------------------------------------------------- bounds
\* Largest value of _room_counter the model explores.
MaxRoomCounter == 2

\* ------------------------------------------------------------ value sets
\* Caller-supplied user ids (request["user_id"], src/main.py:79).
UserIds == {"A", "B", "C"}
\* A subset of the UserLanguage enum, AUTO_DETECT included.
Languages == {"en", "auto"}
\* Readings of int(time.time()).  The wall clock is not monotonic and two
\* calls within a second read the same value: every call may read any of them.
ClockReadings == {0, 1}

\* Python's None for an Optional[str] room id; room ids are <<time, counter>>.
None == <<>>
\* Python's None for an Optional[str] user id.
NoUser == "None"

WAITING == "waiting"
ACTIVE == "active"
CLOSED == "closed"

\* Connection ids (the path parameter of /ws/{connection_id}).
ClientIds == {"c1", "c2", "c3"}
\* WebSocket objects handed to connect.
WebSockets == {"w1", "w2"}
\* What active_connections.get(client_id) returns for an absent key.
NoSocket == "None"
\* A slot of the dict's entry array whose key was deleted.
Tombstone == [client_id |-> "", websocket |-> NoSocket]
\* No frame was handed to a channel.
NoFrame == [method |-> "none", body |-> <<>>]
\* Payloads given to send_json and broadcast_json.
JsonData == {[type |-> "status"]}

VARIABLES
    users,          \* RoomManager.users: user_id -> User (the current object)
    rooms,          \* RoomManager.rooms: room_id -> TranslationRoom
    user_to_room,   \* RoomManager.user_to_room: user_id -> room_id
    waiting_queue,  \* RoomManager.waiting_queue: dict in key insertion order
    room_counter,   \* RoomManager._room_counter
    last,           \* the last call made and what it returned
    active_connections, \* WebSocketManager.active_connections: entry array
    send,           \* a send_* coroutine suspended in the channel's send
    bcast,          \* a broadcast_* coroutine suspended in a channel's send
    wlast,          \* the last registry call that returned, and its outcome
    http,           \* the last request to the HTTP API and its response
    proc,           \* a BidirectionalTranslationProcessor and its pipeline
    outbox,         \* what the processor's last event handed to the registry
    pcs_map         \* main.pcs_map: pc_id -> the user of the offer behind it

room_vars == <<users, rooms, user_to_room, waiting_queue, room_counter, last>>
ws_vars == <<active_connections, send, bcast, wlast>>
app_vars == <<http, proc, outbox, pcs_map>>
vars == <<room_vars, ws_vars, app_vars>>

\* ------------------------------------------------------------- helpers
\* d with key k bound to v (dict item assignment d[k] = v).
DictSet(d, k, v) == [x \in DOMAIN d \cup {k} |-> IF x = k THEN v ELSE d[x]]

\* d without key k (d.pop(k, None)).
DictPop(d, k) == [x \in DOMAIN d \ {k} |-> d[x]]

\* d.get(k), None when the key is absent.
DictGet(d, k) == IF k \in DOMAIN d THEN d[k] ELSE None

\* The User dataclass: preferred_language is fixed at construction,
\* room_id starts None and is_speaking False.
User(preferred_language) ==
    [preferred_language |-> preferred_language, room_id |-> None,
     is_speaking |-> FALSE]

\* A variant of GenerateRoomId that names the room by the clock reading
\* alone.
GenerateRoomIdClockOnly(t, counter) == <<t, 0>>

\* f"room_{int(time.time())}_{self._room_counter}" after the increment:
\* the string is determined by, and determines, the pair of numbers.
GenerateRoomId(t, counter) == <<t, counter + 1>>

\* str(n) for a non-negative int, as the sequence of its decimal digits.
RECURSIVE Digits(_)
Digits(n) ==
    LET d == <<"0", "1", "2", "3", "4", "5", "6", "7", "8", "9">>
    IN  IF n < 10 THEN <<d[n + 1]>> ELSE Digits(n \div 10) \o <<d[(n % 10) + 1]>>

\* The text of a room id: f"room_{t}_{counter}", character by character.
RoomIdString(room_id) ==
    <<"r", "o", "o", "m", "_">> \o Digits(room_id[1]) \o <<"_">>
        \o Digits(room_id[2])

\* Indices of the waiting_queue entries holding language lang (at most one).
BucketIndex(wq, lang) == {i \in 1..Len(wq) : wq[i].lang = lang}

\* Every user id held in some bucket of the waiting queue.
WaitingUsers(wq) == UNION {wq[i].users : i \in 1..Len(wq)}

\* A variant of FindWaitingPartner without the same-language fallback.
FindWaitingPartnerDifferentOnly(wq, user_lang) ==
    LET differing == {i \in 1..Len(wq) :
                        wq[i].lang # user_lang /\ wq[i].users # {}}
    IN  IF differing # {}
        THEN LET first == CHOOSE i \in differing : \A j \in differing : i <= j
             IN  wq[first].users
        ELSE {NoUser}

\* _find_waiting_partner: the set of values the call can return.  The dict is
\* scanned in key insertion order; the first non-empty bucket of another
\* language wins, else the bucket of the user's own language.  next(iter(s))
\* on a set of strings yields an element that depends on the process's hash
\* seed, so any element of the bucket can be the one returned.
FindWaitingPartner(wq, user_lang) ==
    LET differing == {i \in 1..Len(wq) :
                        wq[i].lang # user_lang /\ wq[i].users # {}}
        same == {i \in 1..Len(wq) :
                        wq[i].lang = user_lang /\ wq[i].users # {}}
    IN  IF differing # {}
        THEN LET first == CHOOSE i \in differing : \A j \in differing : i <= j
             IN  wq[first].users
        ELSE IF same # {}
        THEN UNION {wq[i].users : i \in same}
        ELSE {NoUser}

\* A variant of AddToWaitingQueue that never creates a bucket: the id is
\* added only when its language already has one.
AddToWaitingQueueExistingOnly(wq, lang, user_id) ==
    [i \in 1..Len(wq) |->
        IF wq[i].lang = lang
        THEN [wq[i] EXCEPT !.users = @ \cup {user_id}]
        ELSE wq[i]]

\* _add_to_waiting_queue: create the bucket on first use, then add the id.
AddToWaitingQueue(wq, lang, user_id) ==
    LET wq1 == IF BucketIndex(wq, lang) = {}
               THEN Append(wq, [lang |-> lang, users |-> {}])
               ELSE wq
    IN  [i \in 1..Len(wq1) |->
            IF wq1[i].lang = lang
            THEN [wq1[i] EXCEPT !.users = @ \cup {user_id}]
            ELSE wq1[i]]

\* A variant of RemoveFromWaitingQueue that leaves the queue as it is.
RemoveFromWaitingQueueKeeps(us, wq, user_id) == wq

\* _remove_from_waiting_queue: discards the id from the bucket of the
\* language the user table holds for it now; nothing when the id is not in
\* the user table or that language has no bucket.
RemoveFromWaitingQueue(us, wq, user_id) ==
    IF user_id \in DOMAIN us
    THEN [i \in 1..Len(wq) |->
            IF wq[i].lang = us[user_id].preferred_language
            THEN [wq[i] EXCEPT !.users = @ \ {user_id}]
            ELSE wq[i]]
    ELSE wq

\* ---------------------------------------------------------------- Init
\* A suspended coroutine keeps its arguments and locals.  NoArgs stands for
\* the arguments of no call.
NoArgs == <<>>

\* No send_* coroutine is suspended.
IdleSend ==
    [pc |-> "idle", op |-> "none", client_id |-> "", args |-> NoArgs,
     websocket |-> NoSocket, frame |-> NoFrame]

\* No broadcast_* coroutine is suspended.
IdleBroadcast ==
    [pc |-> "idle", op |-> "none", args |-> NoArgs, frame |-> NoFrame,
     di_used |-> 0, di_pos |-> 0, len |-> 0,
     client_id |-> "", websocket |-> NoSocket,
     disconnected_clients |-> <<>>, attempted |-> <<>>]

\* What a registry call left behind when it returned: the sends it made
\* with their outcomes, and whether it raised.
Returned(op, client_id, attempted, raised) ==
    [op |-> op, client_id |-> client_id,
     attempted |-> attempted, raised |-> raised]

\* A call has reached an await since the last return.
Awaiting == Returned("await", "", <<>>, FALSE)

WsInit ==
    /\ active_connections = <<>>
    /\ send = IdleSend
    /\ bcast = IdleBroadcast
    /\ wlast = Returned("init", "", <<>>, FALSE)

RoomInit ==
    /\ users = <<>>
    /\ rooms = <<>>
    /\ user_to_room = <<>>
    /\ waiting_queue = <<>>
    /\ room_counter = 0
    /\ last = [op |-> "init", user_id |-> NoUser, partner |-> NoUser,
               result |-> None, raised |-> FALSE]

\* No request was served.
NoExchange == [request |-> <<>>, response |-> <<>>]

\* No pipeline was started.
NoProcessor == [pc |-> "none"]

AppInit ==
    /\ http = NoExchange
    /\ proc = NoProcessor
    /\ outbox = <<>>
    /\ pcs_map = <<>>

Init == RoomInit /\ WsInit /\ AppInit

\* ------------------------------------------------------------- add_user
\* A variant of NewRoom that seats the newcomer in the room the partner is
\* already assigned to instead of starting from an empty room.
NewRoomReusesPartnersRoom(user_id, partner_user_id) ==
    LET old == DictGet(user_to_room, partner_user_id)
    IN  [status |-> ACTIVE,
         users  |-> {user_id, partner_user_id} \cup
                    (IF old # None /\ old \in DOMAIN rooms
                     THEN rooms[old].users ELSE {})]

\* A variant of NewRoom that leaves the room's status at the dataclass
\* default.
NewRoomKeepsDefaultStatus(user_id, partner_user_id) ==
    [status |-> WAITING, users |-> {user_id, partner_user_id}]

\* The room add_user builds for user_id and partner_user_id: both ids are
\* written as keys into room.users (one key when they are the same id) and
\* the status is set to ACTIVE.  users is the key set of the room's dict.
NewRoom(user_id, partner_user_id) ==
    [status |-> ACTIVE, users |-> {user_id, partner_user_id}]

\* add_user, the branch where a partner id was found.
AddUserMatched(user_id, partner_user_id, users1, t) ==
    LET room_id == GenerateRoomId(t, room_counter)
    IN  /\ room_counter' = room_counter + 1
        /\ IF partner_user_id \notin DOMAIN users1
           THEN \* self.users[partner_user_id] raises KeyError (line 101)
                /\ users' = users1
                /\ UNCHANGED <<rooms, user_to_room, waiting_queue>>
                /\ last' = [op |-> "add_user", user_id |-> user_id,
                            partner |-> partner_user_id,
                            result |-> None, raised |-> TRUE]
           ELSE LET users2 == [x \in DOMAIN users1 |->
                                  IF x \in {user_id, partner_user_id}
                                  THEN [users1[x] EXCEPT !.room_id = room_id]
                                  ELSE users1[x]]
                IN  /\ users' = users2
                    /\ user_to_room' =
                          DictSet(DictSet(user_to_room, user_id, room_id),
                                  partner_user_id, room_id)
                    /\ waiting_queue' =
                          RemoveFromWaitingQueue(users2, waiting_queue,
                                                 partner_user_id)
                    /\ rooms' = DictSet(rooms, room_id,
                                        NewRoom(user_id, partner_user_id))
                    /\ last' = [op |-> "add_user", user_id |-> user_id,
                                partner |-> partner_user_id,
                                result |-> room_id, raised |-> FALSE]

\* add_user, the branch where no partner was found.
AddUserWaiting(user_id, preferred_language, users1) ==
    /\ users' = users1
    /\ waiting_queue' =
          AddToWaitingQueue(waiting_queue, preferred_language, user_id)
    /\ UNCHANGED <<rooms, user_to_room, room_counter>>
    /\ last' = [op |-> "add_user", user_id |-> user_id, partner |-> NoUser,
                result |-> None, raised |-> FALSE]

\* RoomManager.add_user(user_id, connection_id, preferred_language).  The
\* clock is read when a room id is generated; t is that reading.
AddUser(user_id, preferred_language) ==
    LET users1 == DictSet(users, user_id, User(preferred_language))
    IN  \E partner_user_id \in
              FindWaitingPartner(waiting_queue, preferred_language) :
            IF partner_user_id # NoUser
            THEN /\ room_counter < MaxRoomCounter
                 /\ \E t \in ClockReadings :
                        AddUserMatched(user_id, partner_user_id, users1, t)
            ELSE AddUserWaiting(user_id, preferred_language, users1)

\* ---------------------------------------------------------- remove_user
\* A variant of RoomCleanup that deletes the room as soon as any member
\* leaves it.
RoomCleanupClosesOnLeave(room_id, user_id) ==
    IF room_id # None /\ room_id \in DOMAIN rooms
    THEN DictPop(rooms, room_id)
    ELSE rooms

\* remove_user, the room cleanup (lines 168-181): the id is popped from the
\* room's members; the room is deleted when no member is left and stays,
\* status untouched, when one is.
RoomCleanup(room_id, user_id) ==
    IF room_id # None /\ room_id \in DOMAIN rooms
    THEN LET members == rooms[room_id].users \ {user_id}
         IN  IF members = {}
             THEN DictPop(rooms, room_id)
             ELSE [rooms EXCEPT ![room_id].users = members]
    ELSE rooms

\* A variant of RemoveUser without the early return of lines 159-160: an id
\* that is not in the user table reaches self.users[user_id] and raises.
RemoveUserUnguarded(user_id) ==
    LET room_id == DictGet(user_to_room, user_id)
    IN  /\ waiting_queue' =
              RemoveFromWaitingQueue(users, waiting_queue, user_id)
        /\ rooms' = RoomCleanup(room_id, user_id)
        /\ users' = DictPop(users, user_id)
        /\ user_to_room' = DictPop(user_to_room, user_id)
        /\ UNCHANGED room_counter
        /\ last' = [op |-> "remove_user", user_id |-> user_id,
                    partner |-> NoUser, result |-> room_id,
                    raised |-> user_id \notin DOMAIN users]

\* RoomManager.remove_user(user_id).
RemoveUser(user_id) ==
    IF user_id \notin DOMAIN users
    THEN /\ UNCHANGED <<users, rooms, user_to_room, waiting_queue,
                        room_counter>>
         /\ last' = [op |-> "remove_user", user_id |-> user_id,
                     partner |-> NoUser, result |-> None, raised |-> FALSE]
    ELSE LET room_id == DictGet(user_to_room, user_id)
         IN  /\ waiting_queue' =
                   RemoveFromWaitingQueue(users, waiting_queue, user_id)
             /\ rooms' = RoomCleanup(room_id, user_id)
             /\ users' = DictPop(users, user_id)
             /\ user_to_room' = DictPop(user_to_room, user_id)
             /\ UNCHANGED room_counter
             /\ last' = [op |-> "remove_user", user_id |-> user_id,
                         partner |-> NoUser, result |-> room_id,
                         raised |-> FALSE]

\* -------------------------------------------------------------- queries
\* RoomManager.get_user_room: the room the id is assigned to, None when the
\* id has no assignment or the assigned room is not in the room table.
GetUserRoom(user_id) ==
    LET room_id == DictGet(user_to_room, user_id)
    IN  IF room_id # None /\ room_id \in DOMAIN rooms THEN room_id ELSE None

\* TranslationRoom.get_partner: the first key of the room's member dict that
\* is not user_id, NoUser when there is none.  A room is built with at most
\* two keys and never gains one, so there is at most one other key.
GetPartner(room_id, user_id) ==
    LET others == rooms[room_id].users \ {user_id}
    IN  IF others = {} THEN NoUser ELSE CHOOSE p \in others : TRUE

\* RoomManager.get_translation_partner, as the id of the User it returns.
GetTranslationPartner(user_id) ==
    LET room_id == GetUserRoom(user_id)
    IN  IF room_id # None THEN GetPartner(room_id, user_id) ELSE NoUser

\* RoomManager.get_active_rooms_count: the rooms of the table whose status
\* is ACTIVE.
GetActiveRoomsCount ==
    Cardinality({r \in DOMAIN rooms : rooms[r].status = ACTIVE})

\* ----------------------------------------------------------------- Next
AddUserStep ==
    /\ \E user_id \in UserIds, preferred_language \in Languages :
            AddUser(user_id, preferred_language)
    /\ UNCHANGED <<ws_vars, app_vars>>

RemoveUserStep ==
    /\ \E user_id \in UserIds : RemoveUser(user_id)
    /\ UNCHANGED <<ws_vars, app_vars>>

Next == AddUserStep \/ RemoveUserStep

Spec == Init /\ [][Next]_vars

\* Only admissions: the registry under a sequence of add_user calls.
SpecAddOnly == Init /\ [][AddUserStep]_vars

\* ===================================================== WebSocketManager
\* ---------------------------------------------------------------- bounds
\* Largest number of slots of the dict's entry array the model explores
\* (live entries and tombstones together).
MaxEntries == 2

\* -------------------------------------------- the dict active_connections
\* A dict keeps its entries in an array in insertion order.  Deleting a key
\* blanks its slot; a new key takes the next slot at the end; assigning to a
\* present key changes the value in its slot.
\* The slots that hold an entry.
Live(ac) == {i \in 1..Len(ac) : ac[i] # Tombstone}

\* The slot of client_id, if any.
ConnIndex(ac, client_id) == {i \in Live(ac) : ac[i].client_id = client_id}

\* len(active_connections).
ConnLen(ac) == Cardinality(Live(ac))

\* is_connected: client_id in self.active_connections.
IsConnected(ac, client_id) == ConnIndex(ac, client_id) # {}

\* get_active_clients: the keys.
ActiveClients(ac) == {ac[i].client_id : i \in Live(ac)}

\* get_client / active_connections.get(client_id).
ConnGet(ac, client_id) ==
    IF IsConnected(ac, client_id)
    THEN ac[CHOOSE i \in ConnIndex(ac, client_id) : TRUE].websocket
    ELSE NoSocket

\* A variant of ConnSet that keeps the channel already stored for the id.
ConnSetDefault(ac, client_id, websocket) ==
    IF IsConnected(ac, client_id)
    THEN ac
    ELSE Append(ac, [client_id |-> client_id, websocket |-> websocket])

\* self.active_connections[client_id] = websocket.
ConnSet(ac, client_id, websocket) ==
    IF IsConnected(ac, client_id)
    THEN [ac EXCEPT ![CHOOSE i \in ConnIndex(ac, client_id) : TRUE].websocket
                        = websocket]
    ELSE Append(ac, [client_id |-> client_id, websocket |-> websocket])

\* disconnect's body: del self.active_connections[client_id] when present.
ConnDel(ac, client_id) ==
    IF IsConnected(ac, client_id)
    THEN [ac EXCEPT ![CHOOSE i \in ConnIndex(ac, client_id) : TRUE]
                        = Tombstone]
    ELSE ac

\* --------------------------------------------------- connect, disconnect
\* connect(client_id, websocket), from the return of websocket.accept() on:
\* the store and the return have no await between them.  (An accept that
\* raises leaves the registry untouched.)  A new key needs a free slot.
Connect(client_id, websocket) ==
    /\ IsConnected(active_connections, client_id)
          \/ Len(active_connections) < MaxEntries
    /\ active_connections' = ConnSet(active_connections, client_id, websocket)
    /\ wlast' = Returned("connect", client_id, <<>>, FALSE)
    /\ UNCHANGED <<send, bcast>>

\* A variant of Disconnect without the membership test of line 19: del on an
\* absent key raises KeyError.
DisconnectUnguarded(client_id) ==
    /\ active_connections' = ConnDel(active_connections, client_id)
    /\ wlast' = Returned("disconnect", client_id, <<>>,
                         ~IsConnected(active_connections, client_id))
    /\ UNCHANGED <<send, bcast>>

\* disconnect(client_id).
Disconnect(client_id) ==
    /\ active_connections' = ConnDel(active_connections, client_id)
    /\ wlast' = Returned("disconnect", client_id, <<>>, FALSE)
    /\ UNCHANGED <<send, bcast>>

\* ------------------------------------------------------------- frames
\* websocket.send_json(data).
JsonFrame(data) == [method |-> "send_json", body |-> data]

\* websocket.send_bytes(audio_data).
BytesFrame(audio_data) == [method |-> "send_bytes", body |-> audio_data]

\* ------------------------------------------------------- send_* (one id)
\* A variant of SendStart that looks the id up with active_connections[...]:
\* an absent id raises KeyError.
SendStartIndexed(op, client_id, args, frame) ==
    LET websocket == ConnGet(active_connections, client_id)
    IN  /\ send.pc = "idle"
        /\ IF websocket = NoSocket
           THEN /\ wlast' = Returned(op, client_id, <<>>, TRUE)
                /\ UNCHANGED <<active_connections, send, bcast>>
           ELSE /\ send' = [pc |-> "sending", op |-> op,
                            client_id |-> client_id, args |-> args,
                            websocket |-> websocket, frame |-> frame]
                /\ wlast' = Awaiting
                /\ UNCHANGED <<active_connections, bcast>>

\* send_json / send_audio_buffer / send_audio_json up to the await: the
\* channel is looked up; without one the call returns at once, with one the
\* frame is handed to the channel's send and the coroutine waits for it.
SendStart(op, client_id, args, frame) ==
    LET websocket == ConnGet(active_connections, client_id)
    IN  /\ send.pc = "idle"
        /\ IF websocket = NoSocket
           THEN /\ wlast' = Returned(op, client_id, <<>>, FALSE)
                /\ UNCHANGED <<active_connections, send, bcast>>
           ELSE /\ send' = [pc |-> "sending", op |-> op,
                            client_id |-> client_id, args |-> args,
                            websocket |-> websocket, frame |-> frame]
                /\ wlast' = Awaiting
                /\ UNCHANGED <<active_connections, bcast>>

\* A variant of SendResume whose except branch only logs.
SendResumeKeepsEntry(ok) ==
    /\ send.pc = "sending"
    /\ send' = IdleSend
    /\ wlast' = Returned(send.op, send.client_id,
                         <<[client_id |-> send.client_id,
                            websocket |-> send.websocket, ok |-> ok]>>,
                         FALSE)
    /\ UNCHANGED <<active_connections, bcast>>

\* send_* from the outcome of the channel's send to the return: a send that
\* raised is caught and answered with disconnect(client_id).
SendResume(ok) ==
    /\ send.pc = "sending"
    /\ send' = IdleSend
    /\ active_connections' =
          IF ok THEN active_connections
          ELSE ConnDel(active_connections, send.client_id)
    /\ wlast' = Returned(send.op, send.client_id,
                         <<[client_id |-> send.client_id,
                            websocket |-> send.websocket, ok |-> ok]>>,
                         FALSE)
    /\ UNCHANGED bcast

\* ------------------------------------------------------------- broadcast
\* iter(self.active_connections.items()): the iterator remembers the dict's
\* size (di_used), how many slots it has passed (di_pos) and how many items
\* it still expects (len).
NewIterator(ac) == [di_used |-> ConnLen(ac), di_pos |-> 0, len |-> ConnLen(ac)]

\* next() on the items iterator: "size" when the dict's size is no longer
\* the one remembered (RuntimeError: dictionary changed size during
\* iteration), "stop" when no entry is left behind the position, "keys" when
\* an entry is left but none is expected (RuntimeError: dictionary keys
\* changed during iteration), else the slot of the next entry.
IterNext(ac, di_used, di_pos, len) ==
    LET rest == {i \in Live(ac) : i > di_pos}
    IN  IF di_used # ConnLen(ac) THEN [kind |-> "size", slot |-> 0]
        ELSE IF rest = {} THEN [kind |-> "stop", slot |-> 0]
        ELSE IF len = 0 THEN [kind |-> "keys", slot |-> 0]
        ELSE [kind |-> "item",
              slot |-> CHOOSE i \in rest : \A j \in rest : i <= j]

\* A variant of EvictAll that evicts nobody.
EvictNone(ac, disconnected_clients) == ac

\* for client_id in disconnected_clients: self.disconnect(client_id).
RECURSIVE EvictAll(_, _)
EvictAll(ac, disconnected_clients) ==
    IF disconnected_clients = <<>>
    THEN ac
    ELSE EvictAll(ConnDel(ac, Head(disconnected_clients)),
                  Tail(disconnected_clients))

\* The for statement of a broadcast asks the iterator for the next entry:
\* it hands the frame to that entry's channel and waits, or leaves the loop,
\* evicts the collected ids and returns, or lets the RuntimeError of the
\* iterator out of the call (nothing is evicted then).
BroadcastAdvance(b) ==
    LET nxt == IterNext(active_connections, b.di_used, b.di_pos, b.len)
    IN  IF nxt.kind = "item"
        THEN /\ bcast' = [b EXCEPT
                            !.pc = "sending",
                            !.di_pos = nxt.slot,
                            !.len = @ - 1,
                            !.client_id =
                                active_connections[nxt.slot].client_id,
                            !.websocket =
                                active_connections[nxt.slot].websocket]
             /\ wlast' = Awaiting
             /\ UNCHANGED active_connections
        ELSE IF nxt.kind = "stop"
        THEN /\ bcast' = IdleBroadcast
             /\ active_connections' =
                   EvictAll(active_connections, b.disconnected_clients)
             /\ wlast' = Returned(b.op, "", b.attempted, FALSE)
        ELSE /\ bcast' = IdleBroadcast
             /\ UNCHANGED active_connections
             /\ wlast' = Returned(b.op, "", b.attempted, TRUE)

\* broadcast_json / broadcast_audio_json up to the first await (or to the
\* return, when nobody is registered).
BroadcastStart(op, args, frame) ==
    /\ bcast.pc = "idle"
    /\ LET it == NewIterator(active_connections)
       IN  BroadcastAdvance([IdleBroadcast EXCEPT
                                !.op = op, !.args = args,
                                !.frame = frame,
                                !.di_used = it.di_used,
                                !.di_pos = it.di_pos,
                                !.len = it.len])
    /\ UNCHANGED send

\* A broadcast from the outcome of a channel's send to the next await or to
\* the return: a send that raised puts its client id on
\* disconnected_clients.
BroadcastResume(ok) ==
    /\ bcast.pc = "sending"
    /\ BroadcastAdvance([bcast EXCEPT
            !.attempted = Append(@, [client_id |-> bcast.client_id,
                                     websocket |-> bcast.websocket,
                                     ok |-> ok]),
            !.disconnected_clients =
                IF ok THEN @ ELSE Append(@, bcast.client_id)])
    /\ UNCHANGED send

\* --------------------------------------------------------------- base64
\* Largest number of bytes of an audio chunk the model explores.
MaxAudioLen == 3

\* Byte values audio chunks are made of.
AudioBytes == {0, 255}
\* sample_rate arguments (16000 is the default).
SampleRates == {16000, 8000}
\* format arguments ("pcm" is the default).
Formats == {"pcm", "wav"}

\* The audio chunks given to the audio sends.
AudioData == UNION {[1..n -> AudioBytes] : n \in 0..MaxAudioLen}

B64Alphabet ==
    <<"A", "B", "C", "D", "E", "F", "G", "H", "I", "J", "K", "L", "M",
      "N", "O", "P", "Q", "R", "S", "T", "U", "V", "W", "X", "Y", "Z",
      "a", "b", "c", "d", "e", "f", "g", "h", "i", "j", "k", "l", "m",
      "n", "o", "p", "q", "r", "s", "t", "u", "v", "w", "x", "y", "z",
      "0", "1", "2", "3", "4", "5", "6", "7", "8", "9", "+", "/">>

\* The characters for one group of one, two or three bytes: the bytes are
\* read as a 24-bit number (missing bytes as zero bits), cut into four
\* 6-bit digits, and a digit with no input bit in it is written "=".
B64Group(b) ==
    LET n == b[1] * 65536
             + (IF Len(b) >= 2 THEN b[2] * 256 ELSE 0)
             + (IF Len(b) >= 3 THEN b[3] ELSE 0)
    IN  <<B64Alphabet[(n \div 262144) + 1],
          B64Alphabet[((n \div 4096) % 64) + 1],
          IF Len(b) >= 2 THEN B64Alphabet[((n \div 64) % 64) + 1] ELSE "=",
          IF Len(b) >= 3 THEN B64Alphabet[(n % 64) + 1] ELSE "=">>

\* A variant of B64Encode that writes whole groups of three bytes only.
RECURSIVE B64EncodeWholeGroups(_)
B64EncodeWholeGroups(audio_data) ==
    IF Len(audio_data) < 3
    THEN <<>>
    ELSE B64Group(SubSeq(audio_data, 1, 3))
         \o B64EncodeWholeGroups(SubSeq(audio_data, 4, Len(audio_data)))

\* base64.b64encode(audio_data).decode('utf-8'): the string, character by
\* character.
RECURSIVE B64Encode(_)
B64Encode(audio_data) ==
    IF Len(audio_data) = 0
    THEN <<>>
    ELSE IF Len(audio_data) <= 3
    THEN B64Group(audio_data)
    ELSE B64Group(SubSeq(audio_data, 1, 3))
         \o B64Encode(SubSeq(audio_data, 4, Len(audio_data)))

\* The audio_message dict; t is the reading of time.time(), in seconds.
AudioMessage(audio_data, sample_rate, format, t) ==
    [type |-> "audio", data |-> B64Encode(audio_data),
     sample_rate |-> sample_rate, format |-> format, timestamp |-> t * 1000]

\* send_audio_json up to the await.
SendAudioJson(client_id, audio_data, sample_rate, format, t) ==
    SendStart("send_audio_json", client_id,
              [audio_data |-> audio_data, sample_rate |-> sample_rate,
               format |-> format],
              JsonFrame(AudioMessage(audio_data, sample_rate, format, t)))

\* broadcast_audio_json up to the first await.
BroadcastAudioJson(audio_data, sample_rate, format, t) ==
    BroadcastStart("broadcast_audio_json",
                   [audio_data |-> audio_data, sample_rate |-> sample_rate,
                    format |-> format],
                   JsonFrame(AudioMessage(audio_data, sample_rate, format, t)))

\* ----------------------------------------------------------------- steps
ConnectStep ==
    /\ \E client_id \in ClientIds, websocket \in WebSockets :
            Connect(client_id, websocket)
    /\ UNCHANGED <<room_vars, app_vars>>

DisconnectStep ==
    /\ \E client_id \in ClientIds : Disconnect(client_id)
    /\ UNCHANGED <<room_vars, app_vars>>

SendJsonStep ==
    /\ \E client_id \in ClientIds, data \in JsonData :
            SendStart("send_json", client_id, [data |-> data],
                      JsonFrame(data))
    /\ UNCHANGED <<room_vars, app_vars>>

\* send_audio_buffer does not use its sample_rate and format arguments.
SendAudioBufferStep ==
    /\ \E client_id \in ClientIds, audio_data \in AudioData :
            SendStart("send_audio_buffer", client_id,
                      [audio_data |-> audio_data], BytesFrame(audio_data))
    /\ UNCHANGED <<room_vars, app_vars>>

SendAudioJsonStep ==
    /\ \E client_id \in ClientIds, audio_data \in AudioData,
          sample_rate \in SampleRates, format \in Formats,
          t \in ClockReadings :
            SendAudioJson(client_id, audio_data, sample_rate, format, t)
    /\ UNCHANGED <<room_vars, app_vars>>

SendResumeStep ==
    /\ \E ok \in BOOLEAN : SendResume(ok)
    /\ UNCHANGED <<room_vars, app_vars>>

BroadcastJsonStep ==
    /\ \E data \in JsonData :
            BroadcastStart("broadcast_json", [data |-> data], JsonFrame(data))
    /\ UNCHANGED <<room_vars, app_vars>>

BroadcastAudioJsonStep ==
    /\ \E audio_data \in AudioData, sample_rate \in SampleRates,
          format \in Formats, t \in ClockReadings :
            BroadcastAudioJson(audio_data, sample_rate, format, t)
    /\ UNCHANGED <<room_vars, app_vars>>

BroadcastResumeStep ==
    /\ \E ok \in BOOLEAN : BroadcastResume(ok)
    /\ UNCHANGED <<room_vars, app_vars>>

\* ----------------------------------------------------------------- specs
\* The registry under tasks that run side by side: connections come and go
\* and one send_json and one broadcast_json may be suspended at a time.
WsNext ==
    \/ ConnectStep
    \/ DisconnectStep
    \/ SendJsonStep
    \/ SendResumeStep
    \/ BroadcastJsonStep
    \/ BroadcastResumeStep

WsSpec == Init /\ [][WsNext]_vars

\* No coroutine of the registry is suspended.
Idle == send.pc = "idle" /\ bcast.pc = "idle"

\* The registries that connect calls alone can build: every id at most once.
RegisteredTables ==
    UNION {{ac \in [1..n -> [client_id : ClientIds, websocket : WebSockets]] :
               \A i, j \in 1..n : ac[i].client_id = ac[j].client_id => i = j}
           : n \in 0..Cardinality(ClientIds)}

WsSendInit ==
    /\ RoomInit
    /\ AppInit
    /\ active_connections \in RegisteredTables
    /\ send = IdleSend
    /\ bcast = IdleBroadcast
    /\ wlast = Returned("init", "", <<>>, FALSE)

\* Sends and broadcasts of every kind, one call at a time, each running to
\* its return before the next is made.
WsSendNext ==
    \/ Idle /\ SendJsonStep
    \/ Idle /\ SendAudioBufferStep
    \/ Idle /\ SendAudioJsonStep
    \/ Idle /\ BroadcastJsonStep
    \/ Idle /\ BroadcastAudioJsonStep
    \/ SendResumeStep
    \/ BroadcastResumeStep

WsSendSpec == WsSendInit /\ [][WsSendNext]_vars

\* ============================================================= HTTP API
\* The handlers of src/main.py that reach the room matcher.  Each awaits
\* only add_user or remove_user, which never suspend: a handler runs from
\* the request to its response as one action.

\* User ids of the requests made to the API.
ApiUserIds == {"A", "B"}
\* request.get(key) for a key the request body does not carry.
Absent == "<absent>"
\* The values of the UserLanguage enum.
UserLanguageValues == {"en", "hi", "es", "fr", "de", "zh", "ja", "ar", "auto"}
AUTO_DETECT == "auto"
\* Language tags requests carry: the modelled enum values and three texts
\* that are no value of the enum (the lookup is by value and case-sensitive).
LanguageTags == Languages \cup {"EN", "xx", ""}

\* A variant of ParseLanguage that falls back to the request default "en".
ParseLanguageDefaultsToEnglish(tag) ==
    IF tag \in UserLanguageValues THEN tag ELSE "en"

\* UserLanguage(preferred_language) with its ValueError handler (lines
\* 85-89): the enum member with that value, AUTO_DETECT when there is none.
ParseLanguage(tag) ==
    IF tag \in UserLanguageValues THEN tag ELSE AUTO_DETECT

\* f"conn_{user_id}_{int(loop.time())}": within one second of loop time the
\* text is determined by the user id.  The model covers joins made within
\* that second and names the three texts c1, c2, c3.
ConnectionId(user_id) ==
    CASE user_id = "A" -> "c1"
      [] user_id = "B" -> "c2"
      [] OTHER -> "c3"

\* The body join_translation_room returns for user_id, read from the tables
\* add_user left behind (lines 97-114; message and waiting_stats left out).
JoinResponse(user_id, user_language) ==
    LET room_id == last.result
        partner == GetTranslationPartner(user_id)
        head == [status_code |-> 200, user_id |-> user_id,
                 connection_id |-> ConnectionId(user_id),
                 language |-> user_language]
    IN  IF room_id = None
        THEN [x \in DOMAIN head \cup {"status"} |->
                IF x = "status" THEN "waiting" ELSE head[x]]
        ELSE [x \in DOMAIN head \cup
                    {"status", "room_id", "partner_id", "partner_language"} |->
                CASE x = "status" -> "matched"
                  [] x = "room_id" -> room_id
                  [] x = "partner_id" -> partner
                  [] x = "partner_language" ->
                        IF partner # NoUser
                        THEN users[partner].preferred_language ELSE "None"
                  [] OTHER -> head[x]]

\* POST /api/join-room.  A request without user_id gets str(uuid.uuid4()):
\* some id, here any of the modelled ones.  An exception of add_user becomes
\* the response 500.
JoinTranslationRoom(request_user_id, request_language) ==
    LET preferred_language ==
            IF request_language = Absent THEN "en" ELSE request_language
        user_language == ParseLanguage(preferred_language)
    IN  \E user_id \in (IF request_user_id = Absent
                        THEN ApiUserIds ELSE {request_user_id}) :
            /\ AddUser(user_id, user_language)
            /\ http' = [request |-> [path |-> "join-room",
                                     user_id |-> request_user_id,
                                     language |-> request_language],
                        response |-> IF last'.raised
                                     THEN [status_code |-> 500]
                                     ELSE JoinResponse(user_id, user_language)']

\* DELETE /api/leave-room/{user_id}.
LeaveRoom(user_id) ==
    /\ RemoveUser(user_id)
    /\ http' = [request |-> [path |-> "leave-room", user_id |-> user_id],
                response |-> [status_code |-> 200, user_id |-> user_id,
                              room_id |-> last'.result]]

JoinTranslationRoomStep ==
    /\ \E request_user_id \in ApiUserIds \cup {Absent},
          request_language \in LanguageTags \cup {Absent} :
            JoinTranslationRoom(request_user_id, request_language)
    /\ UNCHANGED <<ws_vars, proc, outbox, pcs_map>>

LeaveRoomStep ==
    /\ \E user_id \in ApiUserIds : LeaveRoom(user_id)
    /\ UNCHANGED <<ws_vars, proc, outbox, pcs_map>>

ApiNext == JoinTranslationRoomStep \/ LeaveRoomStep

ApiSpec == Init /\ [][ApiNext]_vars

\* ------------------------------------------------- bidirectional offer
\* Ids of peer connections (pc_id).  One id: at most one connection is
\* open at a time, and an offer can name it or name none.
PcIds == {"p1"}

\* TranslationRoom.is_ready: the room has max_users (2) members.
IsReady(room_id) == Cardinality(rooms[room_id].users) = 2

\* The task background_tasks.add_task hands to the event loop:
\* run_bidirectional_bot(pipecat_connection, user_id, preferred_language).
Scheduled(pc_id, user_id, user_language) ==
    [pc |-> "scheduled", pc_id |-> pc_id, user_id |-> user_id,
     user_language |-> user_language]

\* The exchange of an offer: the request, the status code of the response
\* and which session, if any, the handler started.  An HTTPException raised
\* inside the try block is caught by "except Exception" and answered with
\* status 500; detail names the status the inner exception carried (0 when
\* the exception came from the peer connection).
Offer(request_user_id, request_pc_id, status_code, detail, started) ==
    [request |-> [path |-> "bidirectional-offer",
                  user_id |-> request_user_id, pc_id |-> request_pc_id],
     response |-> [status_code |-> status_code, detail |-> detail,
                   started |-> started]]

\* POST /api/bidirectional-offer.  accepted tells whether the peer
\* connection's initialize or renegotiate returns (TRUE) or raises.
BidirectionalOffer(request_user_id, request_pc_id, accepted) ==
    LET user_id == request_user_id
        room_id == GetUserRoom(user_id)
        Rejected(detail) ==
            /\ http' = Offer(request_user_id, request_pc_id, 500, detail,
                             NoUser)
            /\ UNCHANGED <<proc, pcs_map>>
    IN  /\ UNCHANGED <<room_vars, ws_vars, outbox>>
        /\ IF user_id = Absent THEN Rejected(400)
           ELSE IF user_id \notin DOMAIN users THEN Rejected(404)
           ELSE IF room_id = None THEN Rejected(400)
           ELSE IF ~IsReady(room_id) THEN Rejected(400)
           ELSE IF ~accepted THEN Rejected(0)
           ELSE IF request_pc_id # Absent /\ request_pc_id \in DOMAIN pcs_map
           THEN \* the connection of pc_id is reused: no task is added
                /\ http' = Offer(request_user_id, request_pc_id, 200, 0,
                                 NoUser)
                /\ UNCHANGED <<proc, pcs_map>>
           ELSE \* a new connection, whose id the transport chooses
                \E pc_id \in PcIds \ DOMAIN pcs_map :
                    /\ proc' = Scheduled(pc_id, user_id,
                                         users[user_id].preferred_language)
                    /\ pcs_map' = DictSet(pcs_map, pc_id, user_id)
                    /\ http' = Offer(request_user_id, request_pc_id, 200, 0,
                                     user_id)

\* handle_disconnected, the handler of a connection's "closed" event: the
\* connection leaves pcs_map and the user of its offer is removed.
HandleDisconnected(pc_id) ==
    /\ pc_id \in DOMAIN pcs_map
    /\ pcs_map' = DictPop(pcs_map, pc_id)
    /\ RemoveUser(pcs_map[pc_id])
    /\ UNCHANGED <<ws_vars, http, proc, outbox>>

BidirectionalOfferStep ==
    \E request_user_id \in ApiUserIds \cup {Absent},
       request_pc_id \in PcIds \cup {Absent}, accepted \in BOOLEAN :
        BidirectionalOffer(request_user_id, request_pc_id, accepted)

HandleDisconnectedStep == \E pc_id \in PcIds : HandleDisconnected(pc_id)

\* The language the callers of the offer scenario join with.
OfferLanguages == {"en"}

\* Joins and offers of the two callers; offers, leaves and closed
\* connections come in any order.
JoinForOfferStep ==
    /\ \E request_user_id \in ApiUserIds, request_language \in OfferLanguages :
            JoinTranslationRoom(request_user_id, request_language)
    /\ UNCHANGED <<ws_vars, proc, outbox, pcs_map>>

OfferNext ==
    \/ JoinForOfferStep
    \/ LeaveRoomStep
    \/ BidirectionalOfferStep
    \/ HandleDisconnectedStep

OfferSpec == Init /\ [][OfferNext]_vars

\* ======================================================== session relay
\* BidirectionalTranslationProcessor and run_bidirectional_bot
\* (src/bidirectional_bot.py) with the handlers of src/main.py that end a
\* session.  The model follows the pipeline of one user of a matched pair.
\* A processor handles one frame at a time; its handlers are modelled run
\* from the frame to their return, with every registry call they make run
\* to its return as well.  on_client_disconnected runs beside the frame
\* handlers and is split at the await of its notification.  The timestamp
\* field of the messages and on_client_connected
\* (which sends nothing) are left out.

\* Readings of time.time() in _handle_user_speech, in half seconds.
BotClockReadings == {2, 3, 4}
\* self.translation_cooldown = 1.0 second, in half seconds.
TranslationCooldown == 2
\* frame.text of the transcription frames.
Texts == {"hello"}
\* A channel that has been closed: every send on it raises.
ClosedSocket == "w2"

\* Whether the channel registered for each connection id accepts a frame.
ChannelOks(ac) == [c \in ClientIds |-> ConnGet(ac, c) # ClosedSocket]

\* room_manager.set_user_speaking_status, as the user table it leaves.
SetUserSpeakingStatus(us, user_id, is_speaking) ==
    IF user_id \in DOMAIN us
    THEN [us EXCEPT ![user_id].is_speaking = is_speaking]
    ELSE us

\* {**base, **data}: the keys of data win.
Merge(base, data) ==
    [x \in DOMAIN base \cup DOMAIN data |->
        IF x \in DOMAIN data THEN data[x] ELSE base[x]]

\* f"bot_{message_type}".
BotType(message_type) ==
    CASE message_type = "transcription" -> "bot_transcription"
      [] message_type = "tts_started" -> "bot_tts_started"
      [] message_type = "tts_stopped" -> "bot_tts_stopped"
      [] message_type = "translation" -> "bot_translation"

\* One call to the registry: the method, the connection id it names ("*"
\* for a broadcast), the message, and the sends made with their outcomes.
Call(fn, to, body, attempted) ==
    [fn |-> fn, to |-> to, body |-> body, attempted |-> attempted]

\* ws_manager.send_json(client_id, body) run to its return on table ac:
\* the table it leaves and the call it was.  oks[c] tells whether the
\* channel of c accepts a frame during this event.
SendJsonRun(ac, client_id, body, oks) ==
    IF IsConnected(ac, client_id)
    THEN [ac |-> IF oks[client_id] THEN ac ELSE ConnDel(ac, client_id),
          calls |-> <<Call("send_json", client_id, body,
                           <<[client_id |-> client_id,
                              websocket |-> ConnGet(ac, client_id),
                              ok |-> oks[client_id]]>>)>>]
    ELSE [ac |-> ac, calls |-> <<Call("send_json", client_id, body, <<>>)>>]

\* The sends of a broadcast over table ac from slot i on, in slot order.
RECURSIVE BroadcastAttempts(_, _, _)
BroadcastAttempts(ac, i, oks) ==
    IF i > Len(ac)
    THEN <<>>
    ELSE (IF ac[i] # Tombstone
          THEN <<[client_id |-> ac[i].client_id,
                  websocket |-> ac[i].websocket,
                  ok |-> oks[ac[i].client_id]]>>
          ELSE <<>>) \o BroadcastAttempts(ac, i + 1, oks)

\* ws_manager.broadcast_json(body) run to its return with no other task in
\* between: every connected id is sent the frame, the failed ones are
\* evicted at the end.
BroadcastJsonRun(ac, body, oks) ==
    LET attempted == BroadcastAttempts(ac, 1, oks)
        Failed(a) == ~a.ok
        failed == SelectSeq(attempted, Failed)
    IN  [ac |-> EvictAll(ac, [k \in 1..Len(failed) |-> failed[k].client_id]),
         calls |-> <<Call("broadcast_json", "*", body, attempted)>>]

\* _send_to_partner_bot(message_type, data) on table ac.  The partner is the
\* User object the room holds; in the scenes modelled that object is the
\* one the user table holds for the id.
SendToPartnerBot(ac, message_type, data, oks) ==
    LET partner == GetTranslationPartner(proc.user_id)
    IN  IF partner = NoUser
        THEN [ac |-> ac, calls |-> <<>>]
        ELSE BroadcastJsonRun(ac,
                Merge([type |-> BotType(message_type),
                       from_user |-> proc.user_id,
                       to_user |-> partner,
                       from_language |-> proc.user_language,
                       to_language |-> users[partner].preferred_language],
                      data),
                oks)

\* _send_status_to_user(message_type, data) on table ac.
SendStatusToUser(ac, message_type, data, oks) ==
    IF proc.user_id \notin DOMAIN users
    THEN [ac |-> ac, calls |-> <<>>]
    ELSE SendJsonRun(ac, ConnectionId(proc.user_id),
                     Merge([type |-> message_type, user_id |-> proc.user_id],
                           data),
                     oks)

\* What an event leaves behind: the handler, the clock reading it took (0
\* when it takes none), how it ended, and the registry calls it made.
Handled(handler, time, outcome, calls) ==
    [handler |-> handler, time |-> time, outcome |-> outcome, calls |-> calls]

\* The registry's record of the last call of a handler, if it made one.
LastCall(calls) ==
    IF calls = <<>>
    THEN wlast
    ELSE Returned(calls[Len(calls)].fn, calls[Len(calls)].to,
                  calls[Len(calls)].attempted, FALSE)

\* A variant of CooldownActive that lets every event through.
CooldownNever(current_time, last_translation_time) == FALSE

\* current_time - self.last_translation_time < self.translation_cooldown.
CooldownActive(current_time, last_translation_time) ==
    current_time - last_translation_time < TranslationCooldown

\* _handle_user_speech(frame); current_time is the reading of time.time().
HandleUserSpeech(current_time, text, oks) ==
    /\ proc.pc = "running"
    /\ IF CooldownActive(current_time, proc.last_translation_time)
       THEN /\ outbox' = Handled("user_speech", current_time, "suppressed",
                                 <<>>)
            /\ UNCHANGED <<room_vars, ws_vars, http, pcs_map, proc>>
       ELSE LET transcription_data ==
                    [type |-> "user_speech", text |-> text,
                     user_id |-> proc.user_id,
                     language |-> proc.user_language]
                own == IF proc.user_id \in DOMAIN users
                       THEN SendJsonRun(active_connections,
                                        ConnectionId(proc.user_id),
                                        transcription_data, oks)
                       ELSE [ac |-> active_connections, calls |-> <<>>]
                bot == SendToPartnerBot(own.ac, "transcription",
                            [original_text |-> text,
                             original_language |-> proc.user_language], oks)
            IN  /\ users' = SetUserSpeakingStatus(users, proc.user_id, TRUE)
                /\ active_connections' = bot.ac
                /\ wlast' = LastCall(own.calls \o bot.calls)
                /\ proc' = [proc EXCEPT !.last_translation_time = current_time]
                /\ outbox' = Handled("user_speech", current_time, "forwarded",
                                     own.calls \o bot.calls)
                /\ UNCHANGED <<rooms, user_to_room, waiting_queue,
                               room_counter, last, send, bcast, http, pcs_map>>

\* _handle_tts_started().
HandleTtsStarted(oks) ==
    LET own == SendStatusToUser(active_connections,
                    "translation_audio_started",
                    [message |-> "Translation audio starting"], oks)
        bot == SendToPartnerBot(own.ac, "tts_started",
                    [message |-> "Partner translation audio starting"], oks)
    IN  /\ proc.pc = "running"
        /\ proc' = [proc EXCEPT !.tts_active = TRUE, !.is_speaking = TRUE]
        /\ active_connections' = bot.ac
        /\ wlast' = LastCall(own.calls \o bot.calls)
        /\ outbox' = Handled("tts_started", 0, "done", own.calls \o bot.calls)
        /\ UNCHANGED <<room_vars, send, bcast, http, pcs_map>>

\* _handle_tts_stopped().
HandleTtsStopped(oks) ==
    LET own == SendStatusToUser(active_connections,
                    "translation_audio_stopped",
                    [message |-> "Translation audio finished"], oks)
        bot == SendToPartnerBot(own.ac, "tts_stopped",
                    [message |-> "Partner translation audio finished"], oks)
    IN  /\ proc.pc = "running"
        /\ proc' = [proc EXCEPT !.tts_active = FALSE, !.is_speaking = FALSE]
        /\ users' = SetUserSpeakingStatus(users, proc.user_id, FALSE)
        /\ active_connections' = bot.ac
        /\ wlast' = LastCall(own.calls \o bot.calls)
        /\ outbox' = Handled("tts_stopped", 0, "done", own.calls \o bot.calls)
        /\ UNCHANGED <<rooms, user_to_room, waiting_queue,
                       room_counter, last, send, bcast, http, pcs_map>>

\* A variant of RoomTranslation that never writes to the room.
RoomTranslationNever(ac, partner, text, oks) ==
    [ac |-> ac, calls |-> <<>>]

\* The room log message of _handle_translation_text (lines 295-307).
RoomTranslation(ac, partner, text, oks) ==
    LET room_id == GetUserRoom(proc.user_id)
    IN  IF room_id = None
        THEN [ac |-> ac, calls |-> <<>>]
        ELSE BroadcastJsonRun(ac,
                [type |-> "room_translation", room_id |-> room_id,
                 from_user |-> proc.user_id, to_user |-> partner,
                 translation |-> text,
                 from_language |-> proc.user_language,
                 to_language |-> users[partner].preferred_language],
                oks)

\* _handle_translation_text(frame).
HandleTranslationText(text, oks) ==
    LET partner == GetTranslationPartner(proc.user_id)
    IN  /\ proc.pc = "running"
        /\ IF partner = NoUser
           THEN /\ outbox' = Handled("translation_text", 0, "no_partner", <<>>)
                /\ UNCHANGED <<room_vars, ws_vars, http, pcs_map, proc>>
           ELSE LET data == [translated_text |-> text,
                             target_language |->
                                 users[partner].preferred_language]
                    bot == SendToPartnerBot(active_connections,
                                            "translation", data, oks)
                    own == SendStatusToUser(bot.ac, "translation_generated",
                                            data, oks)
                    log == RoomTranslation(own.ac, partner, text, oks)
                    calls == bot.calls \o own.calls \o log.calls
                IN  /\ active_connections' = log.ac
                    /\ wlast' = LastCall(calls)
                    /\ outbox' = Handled("translation_text", 0, "done", calls)
                    /\ UNCHANGED <<room_vars, send, bcast, http, pcs_map, proc>>

\* ------------------------------------------------- translation audio
\* Most samples an audio frame holds in the model.
MaxFrameSamples == 2
\* Longest run of silent frames the model follows.
MaxSilentRun == 52
\* self.max_silent_frames.
MaxSilentFrames == 50

\* 16-bit samples: silence, and the two values on either side of the
\* volume threshold (327 / 32768 < 0.01 < 328 / 32768).
AudioSamples == {0, 327, 328}
\* frame.audio as the samples np.frombuffer reads from it.
AudioFrames == UNION {[1..n -> AudioSamples] : n \in 0..MaxFrameSamples}

\* The sum of the squared samples.
RECURSIVE SumSquares(_)
SumSquares(audio) ==
    IF audio = <<>> THEN 0
    ELSE audio[1] * audio[1] + SumSquares(Tail(audio))

\* _calculate_volume(frame.audio) > self.volume_threshold, with the default
\* threshold 0.01: an empty buffer has volume 0.0; otherwise
\* sqrt(mean(x^2)) / 32768 > 1/100, that is 10000 * sum(x^2) > 32768^2 * n,
\* both sides divided by 16.
VolumeAboveThreshold(audio) ==
    /\ Len(audio) # 0
    /\ 625 * SumSquares(audio) > 67108864 * Len(audio)

\* _handle_translation_audio(frame): nothing while no synthesis is active;
\* otherwise a loud frame resets the counter and any other frame adds one.
\* The handler makes no registry call and reads max_silent_frames nowhere.
HandleTranslationAudio(audio) ==
    /\ proc.pc = "running"
    /\ IF ~proc.tts_active
       THEN /\ outbox' = Handled("translation_audio", 0, "inactive", <<>>)
            /\ UNCHANGED proc
       ELSE IF VolumeAboveThreshold(audio)
       THEN /\ proc' = [proc EXCEPT !.consecutive_silent_frames = 0]
            /\ outbox' = Handled("translation_audio", 0, "loud", <<>>)
       ELSE /\ proc.consecutive_silent_frames < MaxSilentRun
            /\ proc' = [proc EXCEPT !.consecutive_silent_frames = @ + 1]
            /\ outbox' = Handled("translation_audio", 0, "silent", <<>>)
    /\ UNCHANGED <<room_vars, ws_vars, http, pcs_map>>

\* ------------------------------------------------- end of the session
\* The steps on_client_disconnected has taken, in order.
Disconnecting(steps) ==
    [handler |-> "client_disconnected", time |-> 0,
     outcome |-> IF steps[Len(steps)] = "cancel" THEN "done" ELSE "notifying",
     calls |-> <<>>, steps |-> steps]

\* A variant of OnClientDisconnectedStart that cleans the room up before it
\* looks for the partner to notify.
OnClientDisconnectedStartRemovesFirst ==
    /\ proc.pc = "running"
    /\ RemoveUser(proc.user_id)
    /\ proc' = [proc EXCEPT !.pc = "ended"]
    /\ outbox' = Disconnecting(<<"remove_user", "cancel">>)
    /\ UNCHANGED <<ws_vars, http, pcs_map>>

\* on_client_disconnected up to the await of the notification.  Without a
\* partner, or without a channel for the partner's connection id, nothing
\* suspends and the handler goes on to remove_user and task.cancel().
OnClientDisconnectedStart ==
    LET partner == GetTranslationPartner(proc.user_id)
        disconnection_data ==
            [type |-> "partner_disconnected", user_id |-> proc.user_id,
             partner_id |-> partner,
             message |-> "Your translation partner has disconnected"]
        Notify == SendStart("send_json", ConnectionId(partner),
                            [data |-> disconnection_data],
                            JsonFrame(disconnection_data))
    IN  /\ proc.pc = "running"
        /\ UNCHANGED <<http, pcs_map>>
        /\ IF partner = NoUser
           THEN /\ RemoveUser(proc.user_id)
                /\ proc' = [proc EXCEPT !.pc = "ended"]
                /\ outbox' = Disconnecting(<<"remove_user", "cancel">>)
                /\ UNCHANGED ws_vars
           ELSE IF IsConnected(active_connections, ConnectionId(partner))
           THEN /\ Notify
                /\ proc' = [proc EXCEPT !.pc = "notifying"]
                /\ outbox' = Disconnecting(<<"notify">>)
                /\ UNCHANGED room_vars
           ELSE /\ Notify
                /\ RemoveUser(proc.user_id)
                /\ proc' = [proc EXCEPT !.pc = "ended"]
                /\ outbox' = Disconnecting(<<"notify", "remove_user",
                                             "cancel">>)

\* on_client_disconnected from the outcome of the notification on:
\* remove_user, then task.cancel().
OnClientDisconnectedResume(ok) ==
    /\ proc.pc = "notifying"
    /\ SendResume(ok)
    /\ RemoveUser(proc.user_id)
    /\ proc' = [proc EXCEPT !.pc = "ended"]
    /\ outbox' = Disconnecting(outbox.steps \o <<"remove_user", "cancel">>)
    /\ UNCHANGED <<http, pcs_map>>

\* The users whose connection id is connection_id (main.py lines 199-203).
Owners(connection_id) ==
    {u \in DOMAIN users : ConnectionId(u) = connection_id}

\* websocket_endpoint, the WebSocketDisconnect branch: the channel is
\* dropped and the user registered with the connection id is removed.
WebsocketDisconnected(connection_id) ==
    /\ Disconnect(connection_id)
    /\ IF Owners(connection_id) = {}
       THEN UNCHANGED room_vars
       ELSE RemoveUser(CHOOSE u \in Owners(connection_id) : TRUE)
    /\ UNCHANGED app_vars

\* websocket_endpoint, the branch of any other exception: the channel is
\* dropped.
WebsocketError(connection_id) ==
    /\ Disconnect(connection_id)
    /\ UNCHANGED <<room_vars, app_vars>>

\* run_bidirectional_bot when runner.run raises an Exception.
PipelineError ==
    /\ proc.pc = "running"
    /\ RemoveUser(proc.user_id)
    /\ proc' = [proc EXCEPT !.pc = "ended"]
    /\ outbox' = Handled("pipeline_error", 0, "done", <<>>)
    /\ UNCHANGED <<ws_vars, http, pcs_map>>

\* run_bidirectional_bot when its task is cancelled: CancelledError is no
\* Exception and passes the except clause.
PipelineCancelled ==
    /\ proc.pc = "running"
    /\ proc' = [proc EXCEPT !.pc = "ended"]
    /\ outbox' = Handled("pipeline_cancelled", 0, "done", <<>>)
    /\ UNCHANGED <<room_vars, ws_vars, http, pcs_map>>

\* ---------------------------------------------------------------- scenes
\* Users whose pipeline the model follows.
BotUsers == {"A", "B"}

\* BidirectionalTranslationProcessor.__init__ inside a started pipeline.
NewProcessor(user_id, user_language) ==
    [pc |-> "running", user_id |-> user_id, user_language |-> user_language,
     is_speaking |-> FALSE, tts_active |-> FALSE,
     consecutive_silent_frames |-> 0,
     last_translation_time |-> 0]

\* The room matcher after add_user("A", la), add_user("B", lb), which
\* matches B with A at clock reading t, and add_user("C", lc), which waits.
Scene(la, lb, lc, t) ==
    LET room_id == GenerateRoomId(t, 0)
        users2 == [x \in {"A", "B"} |->
                     [User(IF x = "A" THEN la ELSE lb)
                        EXCEPT !.room_id = room_id]]
        wq2 == RemoveFromWaitingQueue(users2,
                    AddToWaitingQueue(<<>>, la, "A"), "A")
    IN  [users |-> DictSet(users2, "C", User(lc)),
         rooms |-> DictSet(<<>>, room_id, NewRoom("B", "A")),
         user_to_room |-> [x \in {"A", "B"} |-> room_id],
         waiting_queue |-> AddToWaitingQueue(wq2, lc, "C"),
         room_counter |-> 1,
         last |-> [op |-> "add_user", user_id |-> "C", partner |-> NoUser,
                   result |-> None, raised |-> FALSE]]

\* The scene after remove_user(user_id) for a member of the room.
SceneWithout(scene, user_id) ==
    LET room_id == scene.user_to_room[user_id]
    IN  [scene EXCEPT
            !.users = DictPop(@, user_id),
            !.rooms = [@ EXCEPT ![room_id].users = @ \ {user_id}],
            !.user_to_room = DictPop(@, user_id),
            !.last = [op |-> "remove_user", user_id |-> user_id,
                      partner |-> NoUser, result |-> room_id,
                      raised |-> FALSE]]

\* The scenes a pipeline is started in: the pair speaks any two languages,
\* the waiting user English, and the room was created at the earliest
\* clock reading.
Scenes ==
    {Scene(la, lb, "en",
           CHOOSE t \in ClockReadings : \A u \in ClockReadings : t <= u) :
        la \in Languages, lb \in Languages}

\* The registry after connect calls for the connection ids of the users,
\* made in the order A, B, C; sockets[u] is the channel of user u, NoSocket
\* when u has not connected.
TableOf(sockets) ==
    LET Connected(u) == sockets[u] # NoSocket
        order == SelectSeq(<<"A", "B", "C">>, Connected)
    IN  [i \in 1..Len(order) |->
            [client_id |-> ConnectionId(order[i]),
             websocket |-> sockets[order[i]]]]

BotTables == {TableOf(sockets) :
                sockets \in [UserIds -> WebSockets \cup {NoSocket}]}

\* The registry and the processor when a pipeline has just been started
\* for user_id in the given scene.
Started(scene, user_id) ==
    /\ users = scene.users
    /\ rooms = scene.rooms
    /\ user_to_room = scene.user_to_room
    /\ waiting_queue = scene.waiting_queue
    /\ room_counter = scene.room_counter
    /\ last = scene.last
    /\ active_connections \in BotTables
    /\ send = IdleSend
    /\ bcast = IdleBroadcast
    /\ wlast = Returned("init", "", <<>>, FALSE)
    /\ http = NoExchange
    /\ proc = NewProcessor(user_id, scene.users[user_id].preferred_language)
    /\ outbox = <<>>
    /\ pcs_map = DictSet(<<>>, CHOOSE pc_id \in PcIds : TRUE, user_id)

\* A pipeline runs for one user of the matched pair; the partner is in the
\* room or has left it.
BotInit ==
    \E scene \in Scenes, user_id \in BotUsers :
        \/ Started(scene, user_id)
        \/ \E partner \in BotUsers \ {user_id} :
              Started(SceneWithout(scene, partner), user_id)

HandleUserSpeechStep ==
    \E current_time \in BotClockReadings, text \in Texts :
        HandleUserSpeech(current_time, text, ChannelOks(active_connections))

HandleTtsStartedStep == HandleTtsStarted(ChannelOks(active_connections))

HandleTtsStoppedStep == HandleTtsStopped(ChannelOks(active_connections))

HandleTranslationTextStep ==
    \E text \in Texts :
        HandleTranslationText(text, ChannelOks(active_connections))

\* The frames a running pipeline hands to its processor, one at a time.
BotNext ==
    \/ HandleUserSpeechStep
    \/ HandleTtsStartedStep
    \/ HandleTtsStoppedStep
    \/ HandleTranslationTextStep

BotSpec == BotInit /\ [][BotNext]_vars

\* ------------------------------------------------- the audio of a session
HandleTranslationAudioStep ==
    \E audio \in AudioFrames : HandleTranslationAudio(audio)

\* The synthesis events and the audio frames between them.
AudioNext ==
    \/ HandleTtsStartedStep
    \/ HandleTtsStoppedStep
    \/ HandleTranslationAudioStep

AudioSpec == BotInit /\ [][AudioNext]_vars

\* ------------------------------------------------------- session ends
OnClientDisconnectedResumeStep ==
    \E ok \in BOOLEAN : OnClientDisconnectedResume(ok)

WebsocketDisconnectedStep ==
    \E connection_id \in ClientIds :
        /\ IsConnected(active_connections, connection_id)
        /\ WebsocketDisconnected(connection_id)

WebsocketErrorStep ==
    \E connection_id \in ClientIds :
        /\ IsConnected(active_connections, connection_id)
        /\ WebsocketError(connection_id)

SessionInit == \E scene \in Scenes, user_id \in BotUsers : Started(scene, user_id)

\* The ways a session ends, beside the calls to remove_user other handlers
\* make (leave_room, the closed event of the peer connection).
SessionNext ==
    \/ OnClientDisconnectedStart
    \/ OnClientDisconnectedResumeStep
    \/ PipelineError
    \/ PipelineCancelled
    \/ WebsocketDisconnectedStep
    \/ WebsocketErrorStep
    \/ RemoveUserStep

SessionSpec == SessionInit /\ [][SessionNext]_vars

\* ========================================================== properties
\* The rooms that have user_id among their members.
RoomsOf(user_id) == {r \in DOMAIN rooms : user_id \in rooms[r].users}

\* The buckets (by index) of the waiting queue that hold user_id.
BucketsOf(user_id) ==
    {i \in 1..Len(waiting_queue) : user_id \in waiting_queue[i].users}

\* C1: after any sequence of add_user and remove_user calls, ids and
\* languages repeated at will, no room in the room table has more than two
\* members.
C1_NoRoomExceedsTwoMembers ==
    \A r \in DOMAIN rooms : Cardinality(rooms[r].users) <= 2

\* C1 witness: a full room exists while one of its members, admitted again,
\* sits in a second room as well.
C1_Witness ==
    \E r1, r2 \in DOMAIN rooms :
        /\ r1 # r2
        /\ Cardinality(rooms[r1].users) = 2
        /\ rooms[r1].users \cap rooms[r2].users # {}

\* C2: after any sequence of add_user calls, every room in the room table is
\* active if and only if it has exactly two members.
C2_ActiveIffTwoMembers ==
    \A r \in DOMAIN rooms :
        (rooms[r].status = ACTIVE) <=> (Cardinality(rooms[r].users) = 2)

\* C3: each user id is in at most one language bucket of the waiting pool,
\* and no user id in the waiting pool holds a room assignment (neither an
\* entry of user_to_room nor a room_id in its user record).
C3_WaitingExcludesAssignment ==
    \A u \in UserIds :
        /\ Cardinality(BucketsOf(u)) <= 1
        /\ u \in WaitingUsers(waiting_queue) =>
              /\ u \notin DOMAIN user_to_room
              /\ u \in DOMAIN users => users[u].room_id = None

\* The user ids waiting in buckets of a language other than lang, and in
\* the bucket of lang.
WaitingDiffering(lang) ==
    UNION {waiting_queue[i].users :
             i \in {j \in 1..Len(waiting_queue) : waiting_queue[j].lang # lang}}

WaitingSame(lang) ==
    UNION {waiting_queue[i].users :
             i \in {j \in 1..Len(waiting_queue) : waiting_queue[j].lang = lang}}

\* a is a registered user and the only id in the waiting pool.
OnlyWaiting(a) ==
    /\ a \in DOMAIN users
    /\ WaitingUsers(waiting_queue) = {a}

\* The registry as it is after a joined an empty registry: a is the only
\* user, it waits, and there is no room and no room assignment.
JoinedEmptyRegistry(a) ==
    /\ DOMAIN users = {a}
    /\ users[a].room_id = None
    /\ OnlyWaiting(a)
    /\ WaitingSame(users[a].preferred_language) = {a}
    /\ DOMAIN rooms = {}
    /\ DOMAIN user_to_room = {}

\* C4: when a has joined an empty registry and waits, and b joins with a
\* different language, b's add_user returns a room id, that room's members
\* are exactly {a, b}, both users' room assignment (index and record) is that
\* id, and a is no longer in the waiting pool.
C4_SecondJoinerIsMatched ==
    [][\A a, b \in UserIds : \A l \in Languages :
          ( /\ a # b
            /\ JoinedEmptyRegistry(a)
            /\ l # users[a].preferred_language
            /\ AddUser(b, l) )
          => /\ last'.result # None
             /\ ~last'.raised
             /\ last'.result \in DOMAIN rooms'
             /\ rooms'[last'.result].users = {a, b}
             /\ DictGet(user_to_room', a) = last'.result
             /\ DictGet(user_to_room', b) = last'.result
             /\ users'[a].room_id = last'.result
             /\ users'[b].room_id = last'.result
             /\ a \notin WaitingUsers(waiting_queue')]_vars

\* C4 witness: the first room ever created holds the only two users, their
\* languages differ, and nobody waits.
C4_Witness ==
    /\ last.op = "add_user"
    /\ room_counter = 1
    /\ DOMAIN rooms = {last.result}
    /\ rooms[last.result].users = DOMAIN users
    /\ Cardinality(DOMAIN users) = 2
    /\ \E a, b \in DOMAIN users :
          users[a].preferred_language # users[b].preferred_language
    /\ WaitingUsers(waiting_queue) = {}

\* C5: when a is the only waiting user and another id b joins with a's
\* language, b's add_user creates a room whose members are exactly {a, b},
\* and b is not left waiting.
C5_SameLanguageFallback ==
    [][\A a, b \in UserIds :
          ( /\ a # b
            /\ OnlyWaiting(a)
            /\ AddUser(b, users[a].preferred_language) )
          => /\ last'.result \in DOMAIN rooms'
             /\ last'.result \notin DOMAIN rooms
             /\ rooms'[last'.result].users = {a, b}
             /\ b \notin WaitingUsers(waiting_queue')]_vars

\* C5 witness: the last admission paired two different users of one language.
C5_Witness ==
    /\ last.op = "add_user"
    /\ last.partner \notin {NoUser, last.user_id}
    /\ last.result \in DOMAIN rooms
    /\ rooms[last.result].users = {last.user_id, last.partner}
    /\ users[last.user_id].preferred_language =
          users[last.partner].preferred_language
    /\ WaitingUsers(waiting_queue) = {}

\* C6: for every add_user(u, l): when a user waits under another language the
\* partner is one of those; a user waiting under l is taken only when none
\* waits under another language; and the call returns None only when nobody
\* waits at all, u then being put in the pool under l.
C6_MatchingPolicyOrder ==
    [][\A u \in UserIds : \A l \in Languages :
          AddUser(u, l)
          => /\ WaitingDiffering(l) # {} => last'.partner \in WaitingDiffering(l)
             /\ (last'.partner \in WaitingSame(l) \ WaitingDiffering(l))
                   => WaitingDiffering(l) = {}
             /\ (WaitingDiffering(l) = {} /\ WaitingSame(l) # {})
                   => last'.partner \in WaitingSame(l)
             /\ (last'.result = None /\ ~last'.raised)
                   => /\ WaitingUsers(waiting_queue) = {}
                      /\ last'.partner = NoUser
                      /\ \E i \in 1..Len(waiting_queue') :
                            /\ waiting_queue'[i].lang = l
                            /\ u \in waiting_queue'[i].users
             /\ WaitingUsers(waiting_queue) = {}
                   => (last'.result = None /\ ~last'.raised)]_vars

\* C6 witness: the last admission was paired with another user of its own
\* language, a bucket of another language existing and the pool being empty
\* afterwards.
C6_Witness ==
    /\ last.op = "add_user"
    /\ last.partner \notin {NoUser, last.user_id}
    /\ ~last.raised
    /\ users[last.user_id].preferred_language =
          users[last.partner].preferred_language
    /\ Len(waiting_queue) = 2
    /\ WaitingUsers(waiting_queue) = {}

\* C7: a waiting user is claimed as partner by at most one admission: when
\* an admission has just paired its user with another id, that partner is a
\* member of the room just created and of no other room.
C7_PartnerClaimedOnce ==
    ( /\ last.op = "add_user"
      /\ ~last.raised
      /\ last.partner \notin {NoUser, last.user_id} )
    => RoomsOf(last.partner) = {last.result}

\* C8: when remove_user is called for a member of a two-member room it is
\* assigned to, the room stays in the room table, active, with exactly the
\* other member.
C8_RoomSurvivesFirstLeave ==
    [][\A u \in UserIds :
          LET r == DictGet(user_to_room, u)
          IN  ( /\ u \in DOMAIN users
                /\ r \in DOMAIN rooms
                /\ u \in rooms[r].users
                /\ Cardinality(rooms[r].users) = 2
                /\ RemoveUser(u) )
              => /\ r \in DOMAIN rooms'
                 /\ rooms'[r].status = ACTIVE
                 /\ rooms'[r].users = rooms[r].users \ {u}
                 /\ Cardinality(rooms'[r].users) = 1]_vars

\* C8 witness: remove_user returned a room that is still in the table with
\* one member, another user.
C8_Witness ==
    /\ last.op = "remove_user"
    /\ last.result \in DOMAIN rooms
    /\ Cardinality(rooms[last.result].users) = 1
    /\ last.user_id \notin rooms[last.result].users
    /\ rooms[last.result].users \subseteq DOMAIN users

\* C9: every room in the room table has at least one member, and when
\* remove_user has returned a room id that is still in the room table, that
\* room has a member who has not been removed: once both members of a room
\* have been removed the room is gone.
C9_NoRoomOutlivesItsMembers ==
    /\ \A r \in DOMAIN rooms : rooms[r].users # {}
    /\ (last.op = "remove_user" /\ last.result \in DOMAIN rooms)
          => \E u \in rooms[last.result].users : u \in DOMAIN users

\* C10: after remove_user(u) returns, u is in no table: not in the user
\* table, in no bucket of the waiting pool, in no room's members; and the
\* call returned the room id user_to_room held for u, or None.
C10_RemovedUserIsGone ==
    [][\A u \in UserIds :
          RemoveUser(u)
          => /\ u \notin DOMAIN users'
             /\ u \notin DOMAIN user_to_room'
             /\ u \notin WaitingUsers(waiting_queue')
             /\ \A r \in DOMAIN rooms' : u \notin rooms'[r].users
             /\ last'.result = DictGet(user_to_room, u)]_vars

\* C11: remove_user on an id that is not in the user table (never added, or
\* already removed) returns None, raises nothing, and leaves the user table,
\* the room table, the waiting pool and the user-to-room index as they were.
C11_UnknownRemovalIsNoOp ==
    [][\A u \in UserIds :
          (u \notin DOMAIN users /\ RemoveUser(u)) =>
              /\ last'.result = None
              /\ ~last'.raised
              /\ UNCHANGED <<users, rooms, user_to_room, waiting_queue>>]_vars

\* C11 witness: remove_user has just returned None for an id while another
\* id is waiting and no room was ever made.  Every admission so far found the
\* pool empty, so the registered ids are exactly the waiting ones and the id
\* removed was in no table when the call was made.
C11_Witness ==
    /\ last.op = "remove_user"
    /\ last.result = None
    /\ room_counter = 0
    /\ last.user_id \notin DOMAIN users
    /\ DOMAIN users # {}
    /\ WaitingUsers(waiting_queue) = DOMAIN users

\* C12: a user id that holds a room assignment and is not in the waiting
\* pool does not enter the waiting pool in any step: it has to be removed
\* (losing the assignment) before it can wait again.
C12_MatchedNeverWaitsAgain ==
    [][\A u \in UserIds :
          (u \in DOMAIN user_to_room /\ u \notin WaitingUsers(waiting_queue))
              => u \notin WaitingUsers(waiting_queue')]_vars

\* C13: add_user for an id that holds a room assignment creates no room and
\* leaves the assignment as it is, and no id is a member of two rooms.
C13_AssignedIdIsRejected ==
    /\ [](\A u \in UserIds : Cardinality(RoomsOf(u)) <= 1)
    /\ [][\A u \in UserIds, l \in Languages :
             (u \in DOMAIN user_to_room /\ AddUser(u, l)) =>
                 /\ DOMAIN rooms' = DOMAIN rooms
                 /\ user_to_room'[u] = user_to_room[u]]_vars

\* C14: after connect(c, w) c is connected; a connect for an id already
\* present replaces the stored channel without raising, the table holds one
\* entry for c, and a send to c made then goes to the channel stored last.
C14_ReconnectReplacesChannel ==
    [][/\ \A c \in ClientIds, w \in WebSockets :
            Connect(c, w) =>
                /\ IsConnected(active_connections', c)
                /\ Cardinality(ConnIndex(active_connections', c)) = 1
                /\ ConnGet(active_connections', c) = w
                /\ ~wlast'.raised
                /\ \A d \in ClientIds \ {c} :
                       ConnGet(active_connections', d)
                           = ConnGet(active_connections, d)
       /\ \A c \in ClientIds :
            (send.pc = "idle" /\ send'.pc = "sending" /\ send'.client_id = c)
                => send'.websocket = ConnGet(active_connections, c)]_vars

\* C14 witness: an id was connected again, with another channel, while a
\* send to its first channel is still suspended; the table has never lost an
\* entry and holds the one entry of that id, with the new channel.
C14_Witness ==
    /\ wlast.op = "connect"
    /\ Len(active_connections) = 1
    /\ active_connections[1].client_id = wlast.client_id
    /\ send.pc = "sending"
    /\ send.client_id = wlast.client_id
    /\ send.websocket # active_connections[1].websocket

\* C15: after disconnect(c) c is not connected; disconnect never raises; a
\* disconnect of an id that is not connected (disconnected before, or never
\* connected) leaves the connection table as it was.
C15_DisconnectIsIdempotent ==
    [][\A c \in ClientIds :
          Disconnect(c) =>
              /\ ~IsConnected(active_connections', c)
              /\ ~wlast'.raised
              /\ ~IsConnected(active_connections, c)
                    => active_connections' = active_connections]_vars

\* C15 witness: disconnect has just returned for an id that is not in a
\* table which holds other ids.
C15_Witness ==
    /\ wlast.op = "disconnect"
    /\ ~wlast.raised
    /\ ~IsConnected(active_connections, wlast.client_id)
    /\ ActiveClients(active_connections) # {}

\* The send calls for one client id.
SendOps == {"send_json", "send_audio_buffer", "send_audio_json"}

\* C16: send_json, send_audio_buffer or send_audio_json to an id that is not
\* connected hands nothing to any channel, raises nothing and leaves the
\* connection table unchanged.
C16_SendToUnknownIsNoOp ==
    [][\A c \in ClientIds :
          (/\ ~IsConnected(active_connections, c)
           /\ send.pc = "idle" /\ bcast.pc = "idle"
           /\ wlast'.op \in SendOps /\ wlast'.client_id = c) =>
              /\ active_connections' = active_connections
              /\ send' = IdleSend
              /\ wlast'.attempted = <<>>
              /\ ~wlast'.raised]_vars

\* C16 witness: an audio send to an id that is not in a non-empty table has
\* returned without a send.
C16_Witness ==
    /\ wlast.op = "send_audio_json"
    /\ wlast.attempted = <<>>
    /\ ~wlast.raised
    /\ ~IsConnected(active_connections, wlast.client_id)
    /\ ActiveClients(active_connections) # {}

\* C17: when the channel's send of a send_json call raises, the call
\* returns without raising, the id is not in the connection table at the
\* return, and the one failed attempt is all the call did: nothing is sent
\* again and no send stays pending.
C17_FailedSendEvicts ==
    [][SendResume(FALSE) =>
          /\ ~IsConnected(active_connections', send.client_id)
          /\ ~wlast'.raised
          /\ wlast'.attempted = <<[client_id |-> send.client_id,
                                   websocket |-> send.websocket,
                                   ok |-> FALSE]>>
          /\ send' = IdleSend]_vars

\* C17 witness: a send_json whose one attempt failed has returned and its id
\* is gone from a table that still holds another id.
C17_Witness ==
    /\ wlast.op = "send_json"
    /\ Len(wlast.attempted) = 1
    /\ ~wlast.attempted[1].ok
    /\ ~IsConnected(active_connections, wlast.client_id)
    /\ ActiveClients(active_connections) # {}

\* The broadcast calls.
BroadcastOps == {"broadcast_json", "broadcast_audio_json"}

\* The entries of the table, as a set.
Entries(ac) == {ac[i] : i \in Live(ac)}

\* The (client_id, websocket) pairs of a list of attempts.
Attempted(attempted, oks) ==
    {[client_id |-> attempted[k].client_id,
      websocket |-> attempted[k].websocket] :
        k \in {j \in 1..Len(attempted) : attempted[j].ok \in oks}}

\* A broadcast returns in this step.
BroadcastReturns ==
    /\ bcast'.pc = "idle"
    /\ wlast'.op \in BroadcastOps
    /\ bcast.pc = "sending" \/ (Idle /\ send'.pc = "idle")

\* C18: with no other call running, a broadcast hands the frame to the
\* channel of every connected id, once each, whatever sends fail; it does
\* not raise; the table is untouched until the last send is over; and at the
\* return exactly the ids whose send failed have left the table.
C18_BroadcastPartialFailure ==
    [][/\ BroadcastReturns =>
            /\ ~wlast'.raised
            /\ Len(wlast'.attempted) = ConnLen(active_connections)
            /\ Attempted(wlast'.attempted, BOOLEAN)
                  = Entries(active_connections)
            /\ Entries(active_connections')
                  = Attempted(wlast'.attempted, {TRUE})
       /\ bcast'.pc = "sending" =>
            active_connections' = active_connections]_vars

\* C18 witness: a broadcast to three connections has returned; the send to
\* the second failed, the other two succeeded, and the two are what is left
\* in the table.
C18_Witness ==
    /\ wlast.op = "broadcast_json"
    /\ Len(wlast.attempted) = 3
    /\ wlast.attempted[1].ok
    /\ ~wlast.attempted[2].ok
    /\ wlast.attempted[3].ok
    /\ ConnLen(active_connections) = 2

\* C19: a broadcast that was suspended in a send while other tasks connected
\* or disconnected ids (a failed send_json's eviction included) still
\* returns without raising, has made an attempt for every id connected at
\* its return, and none of the connections whose send failed is in the
\* table afterwards.
C19_BroadcastToleratesMutation ==
    [][(bcast.pc = "sending" /\ bcast'.pc = "idle") =>
          /\ ~wlast'.raised
          /\ \A e \in Entries(active_connections') :
                \E k \in 1..Len(wlast'.attempted) :
                    wlast'.attempted[k].client_id = e.client_id
          /\ Attempted(wlast'.attempted, {FALSE})
                \cap Entries(active_connections') = {}]_vars

\* base64.b64decode of a string given character by character; <<-1>> stands
\* for the binascii.Error of a string that is not a whole number of groups.
B64Value(ch) ==
    IF ch = "=" THEN 0
    ELSE (CHOOSE i \in 1..64 : B64Alphabet[i] = ch) - 1

B64DecodeGroup(g) ==
    LET n == B64Value(g[1]) * 262144 + B64Value(g[2]) * 4096
             + B64Value(g[3]) * 64 + B64Value(g[4])
        pad == Cardinality({i \in 3..4 : g[i] = "="})
    IN  SubSeq(<<n \div 65536, (n \div 256) % 256, n % 256>>, 1, 3 - pad)

RECURSIVE B64Decode(_)
B64Decode(s) ==
    IF Len(s) = 0 THEN <<>>
    ELSE IF Len(s) < 4 THEN <<-1>>
    ELSE B64DecodeGroup(SubSeq(s, 1, 4)) \o B64Decode(SubSeq(s, 5, Len(s)))

\* The frame is send_json of an envelope of type "audio" whose data decodes
\* to the bytes of args and whose sample rate and format are those of args.
IsAudioEnvelopeOf(frame, args) ==
    /\ frame.method = "send_json"
    /\ frame.body.type = "audio"
    /\ B64Decode(frame.body.data) = args.audio_data
    /\ frame.body.sample_rate = args.sample_rate
    /\ frame.body.format = args.format

\* C20: the frame send_audio_json or broadcast_audio_json hands to a channel
\* is an envelope of type "audio" whose data field, base64-decoded, is the
\* audio_data argument byte for byte, with the sample_rate and format
\* arguments of the call.
C20_AudioRoundTrip ==
    /\ (send.pc = "sending" /\ send.op = "send_audio_json")
          => IsAudioEnvelopeOf(send.frame, send.args)
    /\ (bcast.pc = "sending" /\ bcast.op = "broadcast_audio_json")
          => IsAudioEnvelopeOf(bcast.frame, bcast.args)

\* C20 witness: a chunk that is not a whole number of three-byte groups,
\* with a sample rate and a format other than the defaults, is on its way to
\* a channel.
C20_Witness ==
    /\ send.pc = "sending"
    /\ send.op = "send_audio_json"
    /\ Len(send.args.audio_data) % 3 # 0
    /\ 255 \in {send.args.audio_data[i] :
                   i \in 1..Len(send.args.audio_data)}
    /\ send.args.sample_rate # 16000
    /\ send.args.format # "pcm"
\* C29: get_translation_partner(u) is the other member when u's room has two
\* members; it is None when u is unknown, waiting or alone in its room; it is
\* never u and never an id that is not in the user table.
C29_PartnerIsTheOtherMember ==
    \A u \in UserIds :
        LET p == GetTranslationPartner(u)
            r == DictGet(user_to_room, u)
        IN  /\ p # u
            /\ p # NoUser => p \in DOMAIN users
            /\ (\/ u \notin DOMAIN users
                \/ u \in WaitingUsers(waiting_queue)
                \/ r = None
                \/ r \notin DOMAIN rooms
                \/ rooms[r].users = {u}) => p = NoUser
            /\ (r # None /\ r \in DOMAIN rooms /\ u \in rooms[r].users
                    /\ Cardinality(rooms[r].users) = 2)
                  => rooms[r].users = {u, p}

C27_InvalidLanguageFallsBack ==
    [][\A request_user_id \in ApiUserIds \cup {Absent},
          request_language \in LanguageTags \ UserLanguageValues :
            JoinTranslationRoom(request_user_id, request_language)
            => LET user_id == last'.user_id
               IN  /\ AddUser(user_id, AUTO_DETECT)
                   /\ users'[user_id].preferred_language = AUTO_DETECT
                   /\ ~last'.raised =>
                        /\ http'.response.status_code = 200
                        /\ http'.response.language = AUTO_DETECT
                        /\ \/ http'.response.status = "matched"
                           \/ \E i \in 1..Len(waiting_queue') :
                                /\ waiting_queue'[i].lang = AUTO_DETECT
                                /\ user_id \in waiting_queue'[i].users]_vars

\* A join with an unknown tag was matched with a waiting user.
C27_Witness ==
    /\ http.request # <<>>
    /\ http.request.path = "join-room"
    /\ http.request.language = "xx"
    /\ http.response.status_code = 200
    /\ http.response.status = "matched"
    /\ http.response.language = AUTO_DETECT
    /\ http.response.partner_id \in DOMAIN users

\* C28: the join response says "matched" exactly when add_user returned a room
\* id and "waiting" exactly when it returned None; a matched response carries
\* that room id and the id and language of the other member of the room,
\* never None and never the joiner's own id.
C28_JoinResponseNamesPartner ==
    (http.request # <<>> /\ http.request.path = "join-room"
        /\ http.response.status_code = 200)
    => LET r == http.response
       IN  /\ r.status = "matched" <=> last.result # None
           /\ r.status = "waiting" <=> last.result = None
           /\ r.status = "matched" =>
                /\ r.room_id = last.result
                /\ r.partner_id # NoUser
                /\ r.partner_id # r.user_id
                /\ rooms[r.room_id].users = {r.user_id, r.partner_id}
                /\ r.partner_language = users[r.partner_id].preferred_language

\* ------------------------------------------------------- session relay
\* The members of the room the processor's user is assigned to.
RoomMembers(user_id) ==
    IF GetUserRoom(user_id) = None
    THEN {}
    ELSE rooms[GetUserRoom(user_id)].users

\* The connection ids a call handed its message to.
Recipients(call) ==
    {call.attempted[j].client_id : j \in 1..Len(call.attempted)}

\* The user-speech handler takes a step with the given clock reading.
Speech(current_time) ==
    \E text \in Texts :
        HandleUserSpeech(current_time, text, ChannelOks(active_connections))

\* C21: a speech event whose clock reading is less than the cooldown after
\* the reading of the user's last forwarded speech event is suppressed: no
\* registry call is made and the speaking flag, the cooldown timestamp and
\* the connection table stay as they are.  Any other speech event is
\* forwarded and its reading becomes the cooldown timestamp, so the readings
\* of two consecutive forwarded events are at least one cooldown apart.
C21_Cooldown ==
    /\ []((outbox # <<>> /\ outbox.handler = "user_speech"
            /\ outbox.outcome = "forwarded")
          => proc.last_translation_time = outbox.time)
    /\ [][\A current_time \in BotClockReadings :
            Speech(current_time) =>
                IF current_time - proc.last_translation_time
                      < TranslationCooldown
                THEN /\ outbox'.outcome = "suppressed"
                     /\ outbox'.calls = <<>>
                     /\ UNCHANGED <<users, active_connections, proc,
                                    send, bcast, wlast>>
                ELSE /\ outbox'.outcome = "forwarded"
                     /\ current_time - proc.last_translation_time
                           >= TranslationCooldown
                     /\ proc'.last_translation_time = current_time]_vars

\* A speech event half a second after a forwarded one was suppressed.
C21_Witness ==
    /\ outbox # <<>>
    /\ outbox.handler = "user_speech"
    /\ outbox.outcome = "suppressed"
    /\ proc.last_translation_time > 0
    /\ outbox.time = proc.last_translation_time + 1

\* The message types that carry a user's transcription, TTS status or
\* translation.
RelayTypes ==
    {"user_speech", "bot_transcription", "bot_tts_started", "bot_tts_stopped",
     "bot_translation", "translation_audio_started",
     "translation_audio_stopped", "translation_generated", "room_translation"}

\* C22: a forwarded speech event of U is handed to U's own connection and,
\* tagged with both ids and both languages, to the partner's connection; no
\* connection of a user outside U's room is handed any transcription,
\* TTS-status or translation message of U.
C22_OnlyTheRoomReceives ==
    outbox # <<>> =>
        /\ \A k \in 1..Len(outbox.calls) :
              outbox.calls[k].body.type \in RelayTypes =>
                \A u \in UserIds :
                    ConnectionId(u) \in Recipients(outbox.calls[k])
                    => u \in RoomMembers(proc.user_id) \cup {proc.user_id}
        /\ (outbox.handler = "user_speech" /\ outbox.outcome = "forwarded"
                /\ proc.user_id \in DOMAIN users) =>
              /\ outbox.calls[1].fn = "send_json"
              /\ outbox.calls[1].to = ConnectionId(proc.user_id)
              /\ outbox.calls[1].body.type = "user_speech"
              /\ GetTranslationPartner(proc.user_id) # NoUser =>
                    /\ Len(outbox.calls) = 2
                    /\ outbox.calls[2].body.from_user = proc.user_id
                    /\ outbox.calls[2].body.to_user
                          = GetTranslationPartner(proc.user_id)
                    /\ outbox.calls[2].body.from_language = proc.user_language
                    /\ outbox.calls[2].body.to_language =
                          users[GetTranslationPartner(proc.user_id)]
                              .preferred_language

\* C23: a synthesis-start event sets the speaking flag of U in the room
\* matcher and a synthesis-stop event clears it; each sends its
\* translation_audio message to U's own connection and its tts message,
\* which carries no audio, to the partner.
C23_TtsSetsSpeakingFlag ==
    [][/\ HandleTtsStartedStep =>
            /\ proc.user_id \in DOMAIN users
                  => users'[proc.user_id].is_speaking
            /\ outbox'.calls[1].to = ConnectionId(proc.user_id)
            /\ outbox'.calls[1].body.type = "translation_audio_started"
       /\ HandleTtsStoppedStep =>
            /\ proc.user_id \in DOMAIN users
                  => ~users'[proc.user_id].is_speaking
            /\ outbox'.calls[1].to = ConnectionId(proc.user_id)
            /\ outbox'.calls[1].body.type = "translation_audio_stopped"
       /\ (HandleTtsStartedStep \/ HandleTtsStoppedStep) =>
            /\ GetTranslationPartner(proc.user_id) # NoUser =>
                  /\ Len(outbox'.calls) = 2
                  /\ outbox'.calls[2].body.type \in
                        {"bot_tts_started", "bot_tts_stopped"}
                  /\ outbox'.calls[2].body.to_user
                        = GetTranslationPartner(proc.user_id)
            /\ \A k \in 1..Len(outbox'.calls) :
                  DOMAIN outbox'.calls[k].body \cap {"data", "audio"} = {}
      ]_vars

\* The translation-text handler takes a step with the given text.
TranslationText(text) ==
    HandleTranslationText(text, ChannelOks(active_connections))

\* C24: a translation text of a user who has a partner makes three registry
\* calls, in this order: the translation payload for the partner with the
\* partner's preferred language as target language, the feedback copy to the
\* user's own connection, and the room log message; each reaches the
\* connection it is meant for when that connection is registered.  Without
\* a partner no call is made.
C24_TranslationDeliveries ==
    [][\A text \in Texts :
        TranslationText(text) =>
          LET partner == GetTranslationPartner(proc.user_id)
              calls == outbox'.calls
          IN  IF partner = NoUser
              THEN /\ calls = <<>>
                   /\ UNCHANGED <<active_connections, users>>
              ELSE /\ Len(calls) = 3
                   /\ calls[1].body.type = "bot_translation"
                   /\ calls[1].body.to_user = partner
                   /\ calls[1].body.from_user = proc.user_id
                   /\ calls[1].body.translated_text = text
                   /\ calls[1].body.target_language
                         = users[partner].preferred_language
                   /\ IsConnected(active_connections, ConnectionId(partner))
                         => ConnectionId(partner) \in Recipients(calls[1])
                   /\ calls[2].fn = "send_json"
                   /\ calls[2].to = ConnectionId(proc.user_id)
                   /\ calls[2].body.type = "translation_generated"
                   /\ calls[2].body.translated_text = text
                   /\ calls[2].body.target_language
                         = users[partner].preferred_language
                   /\ (/\ IsConnected(active_connections,
                                      ConnectionId(proc.user_id))
                       /\ ChannelOks(active_connections)
                              [ConnectionId(proc.user_id)])
                         => ConnectionId(proc.user_id) \in Recipients(calls[2])
                   /\ calls[3].fn = "broadcast_json"
                   /\ calls[3].body.type = "room_translation"
                   /\ calls[3].body.room_id = user_to_room[proc.user_id]
                   /\ calls[3].body.translation = text
                   /\ calls[3].body.to_user = partner]_vars

\* A translation was delivered to the partner's connection, to the user's
\* own connection and to the room.
C24_Witness ==
    /\ outbox # <<>>
    /\ outbox.handler = "translation_text"
    /\ Len(outbox.calls) = 3
    /\ ConnectionId(outbox.calls[1].body.to_user)
          \in Recipients(outbox.calls[1])
    /\ Recipients(outbox.calls[2]) = {ConnectionId(proc.user_id)}
    /\ Recipients(outbox.calls[3]) # {}

\* C25: on_client_disconnected notifies the partner first, then calls
\* remove_user for the user, then cancels the pipeline task.  The
\* notification is attempted exactly when the user has a partner at that
\* moment, which a removed user never has; once remove_user has run the
\* user is gone and no notification follows.
C25_DisconnectOrder ==
    /\ []((outbox # <<>> /\ outbox.handler = "client_disconnected") =>
            /\ outbox.steps \in {<<"notify">>,
                                 <<"notify", "remove_user", "cancel">>,
                                 <<"remove_user", "cancel">>}
            /\ "remove_user" \in {outbox.steps[i] :
                                    i \in 1..Len(outbox.steps)}
                  => (proc.user_id \notin DOMAIN users /\ proc.pc = "ended")
            /\ outbox.steps = <<"notify">> =>
                  /\ proc.pc = "notifying"
                  /\ send.pc = "sending"
                  /\ send.frame.body.type = "partner_disconnected"
                  /\ send.frame.body.user_id = proc.user_id)
    /\ [][/\ OnClientDisconnectedStart =>
               LET partner == GetTranslationPartner(proc.user_id)
               IN  /\ (partner # NoUser) <=> (outbox'.steps[1] = "notify")
                   /\ proc.user_id \notin DOMAIN users => partner = NoUser
                   /\ (partner # NoUser /\ IsConnected(active_connections,
                                                ConnectionId(partner)))
                        => /\ send'.client_id = ConnectionId(partner)
                           /\ proc.user_id \in DOMAIN users'
          /\ OnClientDisconnectedResumeStep =>
               /\ outbox'.steps = <<"notify", "remove_user", "cancel">>
               /\ last'.op = "remove_user"
               /\ last'.user_id = proc.user_id]_vars

\* The partner was notified on its channel, then the user was removed and
\* the task cancelled.
C25_Witness ==
    /\ outbox # <<>>
    /\ outbox.handler = "client_disconnected"
    /\ outbox.steps = <<"notify", "remove_user", "cancel">>
    /\ wlast.op = "send_json"
    /\ wlast.attempted # <<>>

\* C26: when the control connection of a user or the pipeline task of a user
\* ends, for whatever reason, remove_user has been called for that user: the
\* user is in no table of the room matcher afterwards.
C26_EndedSessionIsRemoved ==
    [][/\ \A connection_id \in ClientIds :
            (/\ IsConnected(active_connections, connection_id)
             /\ \/ WebsocketDisconnected(connection_id)
                \/ WebsocketError(connection_id))
            => \A u \in UserIds :
                  ConnectionId(u) = connection_id
                  => /\ u \notin DOMAIN users'
                     /\ u \notin WaitingUsers(waiting_queue')
                     /\ u \notin DOMAIN user_to_room'
       /\ (proc.pc # "ended" /\ proc'.pc = "ended")
            => proc.user_id \notin DOMAIN users']_vars

\* C31: volume gating.  Every audio frame above the volume threshold sets
\* the counter of consecutive silent frames to 0 and every frame at or
\* below it adds 1; a silent frame that arrives when the counter is above
\* max_silent_frames is dropped, and a loud frame never is.
C31_VolumeGating ==
    [][\A audio \in AudioFrames :
          HandleTranslationAudio(audio) =>
             /\ proc'.consecutive_silent_frames =
                   IF VolumeAboveThreshold(audio)
                   THEN 0
                   ELSE proc.consecutive_silent_frames + 1
             /\ (~VolumeAboveThreshold(audio)
                 /\ proc.consecutive_silent_frames > MaxSilentFrames)
                   => outbox'.outcome = "dropped"
             /\ VolumeAboveThreshold(audio) => outbox'.outcome # "dropped"
      ]_vars

\* C32: whenever a user who shares a room with a partner is removed from
\* the user table, by whichever handler, the handler has called the
\* registry to send the partner a partner_disconnected message: the call
\* is the last one the registry returned from, or the removing handler
\* made it before it suspended.
C32_RemainingMemberIsNotified ==
    [][\A user_id \in UserIds, partner \in UserIds :
          ( /\ user_id # partner
            /\ user_id \in DOMAIN users
            /\ partner \in DOMAIN users
            /\ GetTranslationPartner(user_id) = partner
            /\ user_id \notin DOMAIN users' )
          => /\ outbox'.handler = "client_disconnected"
             /\ outbox'.steps[1] = "notify"
             /\ wlast'.op = "send_json"
             /\ wlast'.client_id = ConnectionId(partner)
      ]_vars

\* C33: a send that fails evicts only the channel it failed on.  When the
\* connection id of a suspended send has meanwhile been registered with
\* another channel and the send then raises, the id is still registered
\* with that other channel after the send has returned.
C33_FailedSendSparesNewChannel ==
    [][( /\ send.pc = "sending"
         /\ IsConnected(active_connections, send.client_id)
         /\ ConnGet(active_connections, send.client_id) # send.websocket
         /\ SendResume(FALSE) )
        => ConnGet(active_connections', send.client_id)
              = ConnGet(active_connections, send.client_id)
      ]_vars

\* C34: the partner add_user selects is never the joining id itself, also
\* when the joining id is in the waiting pool when the call is made.
C34_PartnerIsAnotherUser ==
    [][\A user_id \in UserIds, preferred_language \in Languages :
          AddUser(user_id, preferred_language) => last'.partner # user_id
      ]_vars

\* C35: the waiting pool never holds more than one user id over all its
\* buckets, because add_user puts an id into the pool only when every
\* bucket is empty; so no state has two non-empty buckets of different
\* languages.
C35_PoolHoldsAtMostOne ==
    /\ [](Cardinality(WaitingUsers(waiting_queue)) <= 1)
    /\ [][\A user_id \in UserIds, preferred_language \in Languages :
             ( /\ AddUser(user_id, preferred_language)
               /\ user_id \in WaitingUsers(waiting_queue')
               /\ user_id \notin WaitingUsers(waiting_queue) )
             => WaitingUsers(waiting_queue) = {}
         ]_vars

\* An id was put into the pool, by an add_user that found no partner,
\* after rooms had been created and while another user sits in a room.
C35_Witness ==
    /\ last.op = "add_user"
    /\ last.partner = NoUser
    /\ WaitingUsers(waiting_queue) = {last.user_id}
    /\ \E r \in DOMAIN rooms : last.user_id \notin rooms[r].users

\* C36: the tables agree.  For every user in the user table the room_id
\* field equals the user_to_room entry (both absent or both the same id);
\* every member of every room is in the user table with its user_to_room
\* entry naming that room; and every user in the user table is in the
\* waiting pool or a member of exactly one room.
C36_IndexConsistency ==
    /\ \A u \in DOMAIN users : users[u].room_id = DictGet(user_to_room, u)
    /\ \A r \in DOMAIN rooms : \A u \in rooms[r].users :
          /\ u \in DOMAIN users
          /\ DictGet(user_to_room, u) = r
    /\ \A u \in DOMAIN users :
          \/ u \in WaitingUsers(waiting_queue)
          \/ Cardinality(RoomsOf(u)) = 1

\* C37: every room in the room table has status active, never waiting or
\* closed, so get_active_rooms_count equals the number of rooms in the
\* table, rooms with a single member included.
C37_EveryStoredRoomIsActive ==
    /\ \A r \in DOMAIN rooms : rooms[r].status = ACTIVE
    /\ GetActiveRoomsCount = Cardinality(DOMAIN rooms)

\* A member has left a room of two: the room is in the table with the one
\* member that remains, beside another room.
C37_Witness ==
    /\ last.op = "remove_user"
    /\ last.result \in DOMAIN rooms
    /\ Cardinality(rooms[last.result].users) = 1
    /\ Cardinality(DOMAIN rooms) = 2

\* C38: a user left alone in a room by the partner's removal keeps the
\* room assignment and is not in the waiting pool, and the add_user that
\* follows the removal does not select that user as partner.
C38_LoneMemberIsNotRematched ==
    [][/\ \A partner \in UserIds, user_id \in UserIds :
             LET room_id == DictGet(user_to_room, partner)
             IN  ( /\ partner # user_id
                   /\ partner \in DOMAIN users
                   /\ room_id \in DOMAIN rooms
                   /\ rooms[room_id].users = {partner, user_id}
                   /\ RemoveUser(partner) )
                 => /\ DictGet(user_to_room', user_id) = room_id
                    /\ user_id \notin WaitingUsers(waiting_queue')
       /\ \A joiner \in UserIds, preferred_language \in Languages :
             ( /\ last.op = "remove_user"
               /\ last.result \in DOMAIN rooms
               /\ AddUser(joiner, preferred_language) )
             => last'.partner \notin rooms[last.result].users
      ]_vars

\* C39: an offer starts a session only for a user id that is in the user
\* table and whose room has exactly two members when the offer is made;
\* an offer for an unknown user, for a user in the waiting pool or for a
\* user alone in a room is answered with an error status and starts no
\* session.
C39_OfferNeedsAReadyRoom ==
    [][\A request_user_id \in ApiUserIds \cup {Absent},
          request_pc_id \in PcIds \cup {Absent}, accepted \in BOOLEAN :
          BidirectionalOffer(request_user_id, request_pc_id, accepted) =>
             LET user_id == request_user_id
                 room_id == GetUserRoom(user_id)
                 unknown == user_id \notin DOMAIN users
                 waiting == user_id \in WaitingUsers(waiting_queue)
                 alone == /\ room_id # None
                          /\ Cardinality(rooms[room_id].users) = 1
                 started == http'.response.started # NoUser
             IN  /\ started =>
                       /\ http'.response.started = user_id
                       /\ user_id \in DOMAIN users
                       /\ room_id # None
                       /\ Cardinality(rooms[room_id].users) = 2
                 /\ ~started => proc' = proc /\ pcs_map' = pcs_map
                 /\ (unknown \/ waiting \/ alone) =>
                       /\ ~started
                       /\ http'.response.status_code >= 400
      ]_vars

====
